---- MODULE Spec2Model ----
(***************************************************************************)
(* Teleoperation bridge of the Go2 controller: the three transports         *)
(* (Go2Client = Direct, WebSocketClient = Relay, WebRTCClient =             *)
(* PeerConnection), the relay server on the edge computer, and the          *)
(* coordinator Go2ControllerApp that owns a transport and feeds it from     *)
(* the gamepad.                                                             *)
(*                                                                          *)
(* Reals are fixed point: a velocity v m/s is the integer v * VelScale, a   *)
(* raw axis value a is a * RawScale, the speed multiplier m is m * 10.      *)
(* Threads are program counters; a blocking call of the Qt main thread      *)
(* (connect's wait loop, disconnect's join) is a program counter of the     *)
(* main thread, during which no other slot of the main thread runs.         *)
(***************************************************************************)
EXTENDS Integers, Sequences, FiniteSets, TLC

(* ---------------------------------------------------------------- bounds *)
\* transport instances the coordinator may construct in one run
MaxInst == 2
\* background threads one transport instance may start in one run
MaxThreads == 2
\* commands waiting in a relay client's queue (queue.Queue() is unbounded)
MaxQueue == 2
\* websocket sessions the relay server accepts in one run
MaxClients == 2
\* messages of the relay server a client is seen to receive
MaxGot == 2

Inst == 1..MaxInst
Clients == 1..MaxClients
Thr == 1..MaxThreads

(* ------------------------------------------------------ program constants *)
\* for _ in range(50) in WebSocketClient.connect
WsConnectPolls == 50
\* for _ in range(100) in WebRTCClient.connect
RtcConnectPolls == 100
\* Go2Client.MAX_VX, MAX_VY, MAX_VYAW in tenths
MAX_VX == 15
MAX_VY == 5
MAX_VYAW == 15
\* Go2ControllerApp.BASE_SPEED_VX, _VY, _VYAW in tenths
BASE_SPEED_VX == 8
BASE_SPEED_VY == 3
BASE_SPEED_VYAW == 8
\* Go2ControllerApp.BOOST_MULTIPLIER in tenths
BOOST_MULTIPLIER == 15
\* SportCmd.MOVE, ObstacleAvoidCmd.MOVE, ObstacleAvoidCmd.SWITCH api ids
SPORT_MOVE == 1008
OBSTACLE_MOVE == 1002
OBSTACLE_SWITCH == 1001

(* ------------------------------------------------------------ fixed point *)
\* raw axis values are multiples of 1/20
RawScale == 2 * 10
\* GamepadController.deadzone, 0.15, in RawScale units
Deadzone == 3
\* a shaped stick value is a multiple of 1/(RawScale - Deadzone)
StickScale == RawScale - Deadzone
\* a trigger value is a multiple of 1/(2 * RawScale)
TrigScale == 2 * RawScale
\* 1 + trigger * (BOOST_MULTIPLIER - 1.0) is a multiple of 1/(2 * TrigScale)
BoostScale == 2 * TrigScale
\* one m/s: stick * base speed (tenths) * multiplier (tenths) * two boosts
VelScale == StickScale * 10 * 10 * BoostScale * BoostScale

Abs(x) == IF x < 0 THEN -x ELSE x
Min(a, b) == IF a < b THEN a ELSE b
Max(a, b) == IF a > b THEN a ELSE b

ZeroVel == <<0, 0, 0>>

VARIABLES
    \* ---- every transport instance
    kind,            \* "none" (not constructed), "direct", "relay", "rtc"
    running,         \* _running
    connected,       \* connected
    stConnected,     \* state.connected
    stVelocity,      \* state.velocity
    stMode,          \* state.mode
    stFeet,          \* state.feet: the contact flag of each entry
    stMotors,        \* state.motors: temperature and lost of each entry
    inbound,         \* the last message _receiveLoop took off the socket
    stateCb,         \* a telemetry consumer is registered (_stateCallback)
    threads,         \* program counter of each background thread started
    handle,          \* _connectThread / _stateThread / _asyncThread (0: None)
    \* ---- Relay (WebSocketClient)
    commandQueue,    \* _commandQueue
    taken,           \* cmd of each _sendLoop that has taken a command and
                     \* not sent it yet: <<thread, command>> in the order
                     \* the commands left the queue
    \* ---- Direct (Go2Client)
    sportClient,     \* _sportClient is set
    simulationMode,  \* _simulationMode
    lastMoveCmd,     \* _lastMoveCmd
    videoCb,         \* _videoCallback is set
    videoThread,     \* _videoThread: "none", "alive", "dead"
    frames,          \* _videoCallback has been called with a frame
    \* ---- PeerConnection (WebRTCClient)
    tconn,           \* the Go2WebRTCConnection each thread created
    conn,            \* _conn: the thread whose connection it is (0: None)
    eventLoop,       \* _eventLoop: the thread whose loop it is (0: None)
    discTask,        \* the _asyncDisconnect coroutine handed to a loop
    obstacleAvoidEnabled,
    \* ---- the calling (Qt main) thread
    mainPc,          \* "idle", "connectWait", "connectReturn", "join", "joinVideo"
    mainInst,        \* the instance whose method the main thread is in
    checks,          \* reads of the connected flag by the connect() under way
    result,          \* what connect() hands back: "none","true","false","raise"
    discReturned,    \* disconnect() has returned and connect() was not called since
    \* ---- the wire and the environment
    wire,            \* what the last step sent: SDK calls and published
                     \* requests on their way to the robot, a relay message
                     \* on its way to the relay server
    serverUp,        \* a relay server is listening at the client's address
    env,             \* which libraries are installed, here and on the relay
    bridge,          \* the relay server: velocity and mode of its RobotState,
                     \* the handler of a client's connection ("none", "open",
                     \* "closed"), the last message that handler took
    \* ---- the coordinator (Go2ControllerApp)
    appPc,           \* "idle", "onConnect", "onConnectWait", "onDisconnect";
                     \* "closed": cleanup() has stopped the timers
    appConnected,    \* _connected
    robotClient,     \* robotClient (0: None)
    connectionMode,  \* _connectionMode
    speedMultiplier, \* _speedMultiplier, in tenths
    lastRobotState,  \* _lastRobotState
    appRaised,       \* an exception left a coordinator slot
    pad,             \* gamepad.state
    prevButtons,     \* gamepad._prevButtons: the buttons held down
    numJoysticks,    \* pygame.joystick.get_count() at the last poll
    joystick,        \* what get_axis returned at the last _updateState
    buttonEvents,    \* the calls of _buttonCallback during the last poll
    lastEvent,       \* for each button, the pressed flag of its last event
    modeCombo,       \* statusWidget.modeCombo.currentIndex()
    \* ---- a RobotState value and its derived property
    robotState,      \* batteryLevel, errorCode and motors of a RobotState
    healthy          \* what isHealthy returned: "unread", "True", "False"

trVars == <<kind, running, connected, stConnected, stVelocity, stMode, stFeet,
            stMotors, inbound, stateCb,
            threads, handle, commandQueue, taken, sportClient, simulationMode,
            lastMoveCmd, videoCb, videoThread, frames, tconn, conn, eventLoop,
            discTask, obstacleAvoidEnabled>>
mainVars == <<mainPc, mainInst, checks, result, discReturned>>
netVars == <<wire, serverUp, env, bridge>>
appVars == <<appPc, appConnected, robotClient, connectionMode,
             speedMultiplier, lastRobotState, appRaised>>
padVars == <<pad, prevButtons, numJoysticks, joystick, buttonEvents,
            lastEvent, modeCombo>>
valVars == <<robotState, healthy>>
vars == <<trVars, mainVars, netVars, appVars, padVars, valVars>>

(* ---------------------------------------------------------------- values *)
Kinds == {"direct", "relay", "rtc"}
\* the action methods every transport has, besides move and emergencyStop
Actions == {"standUp", "standDown", "balanceStand", "recoveryStand",
            "stopMove", "damp"}
NoState == [from |-> 0, connected |-> FALSE, velocity |-> ZeroVel,
            mode |-> "UNKNOWN", feet |-> <<>>, motors |-> <<>>]
\* an inbound message that is no "state" message, and no message yet
OtherMsg(form) ==
    [form |-> form, mode |-> "", velocity |-> ZeroVel, feet |-> <<>>,
     bad |-> "none"]
NoMsg == OtherMsg("none")
\* no _broadcastState under way
NoRound == [pc |-> "idle", size |-> 0, snap |-> {}, seen |-> {},
            sent |-> {}, remove |-> {}]
\* Go2BridgeServer after __init__: RobotState(), no client. clients is
\* self.clients; session is where the _handleClient of each websocket is
\* ("none", "added", "open", "closed"); got is what each client has received;
\* round is the _broadcastState the state thread is in
InitBridge ==
    [velocity |-> ZeroVel, mode |-> "UNKNOWN", handler |-> "none",
     inbound |-> [op |-> "none", v |-> ZeroVel],
     clients |-> {}, session |-> [c \in Clients |-> "none"],
     got |-> [c \in Clients |-> <<>>], round |-> NoRound]
\* RobotState.feet and RobotState.motors as the default factories make them:
\* FootState() for range(4), MotorState() for range(12)
NewFeet == [k \in 1..4 |-> FALSE]
NewMotors == [k \in 1..12 |-> [temperature |-> 25, lost |-> FALSE]]
NoTask == [st |-> "none", loop |-> 0]

Upd(f, i, v) == [f EXCEPT ![i] = v]

\* threading.Thread.is_alive() of thread t of instance i
Alive(i, t) == t # 0 /\ threads[i][t] \notin {"none", "dead"}
FreeThr(i) == {t \in Thr : threads[i][t] = "none"}
NewThr(i) == CHOOSE t \in FreeThr(i) : \A u \in FreeThr(i) : t <= u
\* steps in which a thread can stay longer than a join timeout: the opening
\* handshake, time.sleep(3), the peer connection's connect
SlowPc == {"connecting", "backoff"}
\* steps a thread is through before a time.sleep(0.1) of another thread ends:
\* its first lines, the tests of _running around time.sleep(3), the entry
\* into asyncio.run
PromptPc == {"start", "top", "try", "afterTry"}
\* time.sleep(0.1) of connect()'s wait loop can end
SleepOver(i) == \A t \in Thr : threads[i][t] \notin PromptPc
\* a websocket session of instance i is open: its event loop is free
\* ("session": both loops are at an await), or held by _sendLoop inside
\* self._commandQueue.get(timeout=0.1) ("get"), or between that get and
\* ws.send ("send")
LinkUp(i) == \E t \in Thr : threads[i][t] \in {"session", "get", "send"}
\* _eventLoop and _eventLoop.is_running()
LoopRunning(i) ==
    eventLoop[i] # 0 /\ threads[i][eventLoop[i]] \in {"connecting", "loop"}

(* ------------------------------------------------------------------ Init *)
\* RobotState(), and the fields every transport's __init__ sets
InitTransports(k1) ==
    /\ kind = [i \in Inst |-> IF i = 1 THEN k1 ELSE "none"]
    /\ running = [i \in Inst |-> FALSE]
    /\ connected = [i \in Inst |-> FALSE]
    /\ stConnected = [i \in Inst |-> FALSE]
    /\ stVelocity = [i \in Inst |-> ZeroVel]
    /\ stMode = [i \in Inst |-> "UNKNOWN"]
    /\ stFeet = [i \in Inst |-> NewFeet]
    /\ stMotors = [i \in Inst |-> NewMotors]
    /\ inbound = [i \in Inst |-> NoMsg]
    /\ stateCb = [i \in Inst |-> FALSE]
    /\ threads = [i \in Inst |-> [t \in Thr |-> "none"]]
    /\ handle = [i \in Inst |-> 0]
    /\ taken = [i \in Inst |-> <<>>]
    /\ commandQueue = [i \in Inst |-> <<>>]
    /\ sportClient = [i \in Inst |-> FALSE]
    /\ simulationMode = [i \in Inst |-> FALSE]
    /\ lastMoveCmd = [i \in Inst |-> ZeroVel]
    /\ videoCb = [i \in Inst |-> FALSE]
    /\ videoThread = [i \in Inst |-> "none"]
    /\ frames = [i \in Inst |-> FALSE]
    /\ tconn = [i \in Inst |-> [t \in Thr |-> "none"]]
    /\ conn = [i \in Inst |-> 0]
    /\ eventLoop = [i \in Inst |-> 0]
    /\ discTask = [i \in Inst |-> NoTask]
    /\ obstacleAvoidEnabled = [i \in Inst |-> FALSE]

InitMain ==
    /\ mainPc = "idle"
    /\ mainInst = 0
    /\ checks = 0
    /\ result = "none"
    /\ discReturned = [i \in Inst |-> FALSE]

\* the axes of a joystick at rest: sticks centred, triggers released
NoJoystick ==
    [lx |-> 0, ly |-> 0, rx |-> 0, lt |-> -RawScale, rt |-> -RawScale,
     name |-> "Xbox"]
\* RobotState(): the fields isHealthy reads
NewRobotState == [batteryLevel |-> 0, errorCode |-> 0, motors |-> NewMotors]

\* Go2ControllerApp.__init__ and GamepadController.__init__
InitApp ==
    /\ appPc = "idle"
    /\ appConnected = FALSE
    /\ robotClient = 0
    /\ connectionMode = "websocket"
    /\ speedMultiplier = 10
    /\ lastRobotState = NoState
    /\ appRaised = FALSE
    /\ pad = [connected |-> FALSE, leftStickX |-> 0, leftStickY |-> 0,
              rightStickX |-> 0, leftTrigger |-> 0, rightTrigger |-> 0,
              buttons |-> {}, controllerName |-> ""]
    /\ prevButtons = {}
    /\ numJoysticks = 0
    /\ joystick = NoJoystick
    /\ buttonEvents = <<>>
    /\ lastEvent = [b \in {"Y", "LB", "RB", "GUIDE"} |-> "none"]
    /\ modeCombo = 0

\* a RobotState() nobody has asked for its health
InitVal ==
    /\ robotState = NewRobotState
    /\ healthy = "unread"

(* ------------------------------------------------------- command handlers *)
\* Each handler below sets the transport variables, the main thread's
\* variables and the wire; its caller sets the coordinator's variables.
flagVars == <<running, connected, stConnected>>
telVars == <<stVelocity, stMode, stFeet, stMotors, inbound>>
thrVars == <<threads, handle, taken>>
dirVars == <<sportClient, simulationMode>>
vidVars == <<videoCb, videoThread, frames>>
rtcVars == <<tconn, conn, eventLoop, discTask>>

Lim(m) == m * (VelScale \div 10)
Clamp(x, m) == Max(-Lim(m), Min(Lim(m), x))
\* the three max(-MAX, min(MAX, v)) of Go2Client.move
ClampVel(v) ==
    <<Clamp(v[1], MAX_VX), Clamp(v[2], MAX_VY), Clamp(v[3], MAX_VYAW)>>

\* a command on its way to the robot: an SDK call (topic "sdk") or a request
\* published on a data-channel topic; inst is the transport that sent it (0:
\* the relay server), src the method or message it is from
Cmd(i, op, v, src, topic, api) ==
    [inst |-> i, op |-> op, v |-> v, src |-> src, topic |-> topic, api |-> api]
\* SportCmd / SportModeCmd ids of the action methods
ApiId(a) ==
    CASE a = "damp" -> 0
      [] a = "balanceStand" -> 1
      [] a = "stopMove" -> 2
      [] a = "standUp" -> 3
      [] a = "standDown" -> 4
      [] a = "recoveryStand" -> 5

\* Go2Client._sendSportCmd: an SDK call, or a log line in simulation
DirectSportCmd(i, a, src) ==
    IF sportClient[i] /\ ~simulationMode[i]
    THEN <<Cmd(i, a, ZeroVel, src, "sdk", ApiId(a))>>
    ELSE <<>>
\* the SDK call of a move that does not look at _sportClient and
\* _simulationMode
DirectMoveCallAlways(i, v, src) ==
    <<Cmd(i, "move", ClampVel(v), src, "sdk", 6)>>
\* the SDK call of Go2Client.move
DirectMoveCall(i, v, src) ==
    IF sportClient[i] /\ ~simulationMode[i]
    THEN <<Cmd(i, "move", ClampVel(v), src, "sdk", 6)>>
    ELSE <<>>
\* Go2Client.standUp .. damp; stopMove is _sendSportCmd(STOP_MOVE); move(0,0,0)
DirectCalls(i, a, src) ==
    IF a = "stopMove"
    THEN DirectSportCmd(i, a, src) \o DirectMoveCall(i, ZeroVel, src)
    ELSE DirectSportCmd(i, a, src)

\* Go2Client.move that keeps the velocity as it was passed
DirectMoveUnclamped(i, v) ==
    /\ kind[i] = "direct"
    /\ lastMoveCmd' = Upd(lastMoveCmd, i, v)
    /\ wire' = DirectMoveCall(i, v, "move")
    /\ UNCHANGED <<kind, flagVars, telVars, stateCb, thrVars, commandQueue,
                   dirVars, vidVars, rtcVars, obstacleAvoidEnabled>>

\* Go2Client.move
DirectMove(i, v) ==
    /\ kind[i] = "direct"
    /\ lastMoveCmd' = Upd(lastMoveCmd, i, ClampVel(v))
    /\ wire' = DirectMoveCall(i, v, "move")
    /\ UNCHANGED <<kind, flagVars, telVars, stateCb, thrVars, commandQueue,
                   dirVars, vidVars, rtcVars, obstacleAvoidEnabled>>

\* Go2Client.standUp .. damp and Go2Client.emergencyStop (stopMove(); damp())
DirectCommand(i, a) ==
    /\ kind[i] = "direct"
    /\ wire' = IF a = "emergencyStop"
               THEN DirectCalls(i, "stopMove", a) \o DirectCalls(i, "damp", a)
               ELSE DirectCalls(i, a, a)
    /\ lastMoveCmd' = IF a \in {"stopMove", "emergencyStop"}
                      THEN Upd(lastMoveCmd, i, ZeroVel)
                      ELSE lastMoveCmd
    /\ UNCHANGED <<kind, flagVars, telVars, stateCb, thrVars, commandQueue,
                   dirVars, vidVars, rtcVars, obstacleAvoidEnabled>>

\* WebRTCClient._sendSportCommand / _sendObstacleAvoidCommand: the request is
\* handed to the event loop, or dropped
RtcPublish(i, topic, api, op, v, src) ==
    IF connected[i] /\ conn[i] # 0 /\ LoopRunning(i)
    THEN <<Cmd(i, op, v, src, topic, api)>>
    ELSE <<>>

\* WebRTCClient.move that takes no notice of obstacleAvoidEnabled
RtcMoveOnSport(i, v) ==
    /\ kind[i] = "rtc"
    /\ wire' = RtcPublish(i, "sport", SPORT_MOVE, "move", v, "move")
    /\ stVelocity' = Upd(stVelocity, i, v)
    /\ UNCHANGED <<kind, flagVars, stMode, stFeet, stMotors, inbound, stateCb,
                   thrVars, commandQueue,
                   dirVars, lastMoveCmd, vidVars, rtcVars,
                   obstacleAvoidEnabled>>

\* WebRTCClient.move
RtcMove(i, v) ==
    /\ kind[i] = "rtc"
    /\ wire' = IF obstacleAvoidEnabled[i]
               THEN RtcPublish(i, "obstacle", OBSTACLE_MOVE, "move", v, "move")
               ELSE RtcPublish(i, "sport", SPORT_MOVE, "move", v, "move")
    /\ stVelocity' = Upd(stVelocity, i, v)
    /\ UNCHANGED <<kind, flagVars, stMode, stFeet, stMotors, inbound, stateCb,
                   thrVars, commandQueue,
                   dirVars, lastMoveCmd, vidVars, rtcVars,
                   obstacleAvoidEnabled>>

\* what WebRTCClient.standUp .. damp write into self.state
RtcModeAfter(a, m) ==
    CASE a = "standUp" -> "STAND_UP"
      [] a = "standDown" -> "STAND_DOWN"
      [] a \in {"damp", "emergencyStop"} -> "IDLE"
      [] OTHER -> m

\* WebRTCClient.standUp .. damp and WebRTCClient.emergencyStop
RtcCommand(i, a) ==
    /\ kind[i] = "rtc"
    /\ wire' = IF a = "emergencyStop"
               THEN RtcPublish(i, "sport", ApiId("stopMove"), "stopMove",
                               ZeroVel, a)
                    \o RtcPublish(i, "sport", ApiId("damp"), "damp", ZeroVel, a)
               ELSE RtcPublish(i, "sport", ApiId(a), a, ZeroVel, a)
    /\ stVelocity' = IF a \in {"stopMove", "emergencyStop"}
                     THEN Upd(stVelocity, i, ZeroVel)
                     ELSE stVelocity
    /\ stMode' = Upd(stMode, i, RtcModeAfter(a, stMode[i]))
    /\ UNCHANGED <<stFeet, stMotors, inbound>>
    /\ UNCHANGED <<kind, flagVars, stateCb, thrVars, commandQueue, dirVars,
                   lastMoveCmd, vidVars, rtcVars, obstacleAvoidEnabled>>

\* WebRTCClient.setObstacleAvoid
RtcSetObstacleAvoid(i, enable) ==
    /\ kind[i] = "rtc"
    /\ wire' = RtcPublish(i, "obstacle", OBSTACLE_SWITCH,
                          IF enable THEN "enable" ELSE "disable", ZeroVel,
                          "setObstacleAvoid")
    /\ obstacleAvoidEnabled' = Upd(obstacleAvoidEnabled, i, enable)
    /\ UNCHANGED <<kind, flagVars, telVars, stateCb, thrVars, commandQueue,
                   dirVars, lastMoveCmd, vidVars, rtcVars>>

\* the JSON message of a relay command; linkUp records whether a session was
\* open when the command was passed to the transport
Msg(type, v, up) == [type |-> type, v |-> v, linkUp |-> up]

\* WebSocketClient._sendCommand, from move (type "move") and from standUp ..
\* emergencyStop (type = the method's name)
WsSendCommand(i, type, v) ==
    /\ kind[i] = "relay"
    /\ Len(commandQueue[i]) < MaxQueue
    /\ commandQueue' =
           Upd(commandQueue, i, Append(commandQueue[i], Msg(type, v, LinkUp(i))))
    /\ wire' = <<>>
    /\ UNCHANGED <<kind, flagVars, telVars, stateCb, thrVars, dirVars,
                   lastMoveCmd, vidVars, rtcVars, obstacleAvoidEnabled>>

\* robotClient.move(vx, vy, vyaw) on whichever transport i is
TrMove(i, v) ==
    /\ \/ DirectMove(i, v)
       \/ RtcMove(i, v)
       \/ WsSendCommand(i, "move", v)
    /\ UNCHANGED <<mainVars, serverUp, env, bridge>>

\* robotClient.standUp() .. damp(), emergencyStop() on whichever transport i is
TrCommand(i, a) ==
    /\ \/ DirectCommand(i, a)
       \/ RtcCommand(i, a)
       \/ WsSendCommand(i, a, ZeroVel)
    /\ UNCHANGED <<mainVars, serverUp, env, bridge>>

(* ------------------------------------------------- connect and disconnect *)
Spawn(i, pc) ==
    /\ FreeThr(i) # {}
    /\ threads' = Upd(threads, i, Upd(threads[i], NewThr(i), pc))
    /\ handle' = Upd(handle, i, NewThr(i))
    /\ UNCHANGED taken

\* Go2Client.connect: returns True with the state thread started, or raises
DirectConnect(i) ==
    /\ kind[i] = "direct"
    /\ \/ /\ env.sdk \in {"absent", "ok"}
          /\ Spawn(i, "run")
          /\ sportClient' = IF env.sdk = "ok" THEN Upd(sportClient, i, TRUE)
                            ELSE sportClient
          /\ simulationMode' = Upd(simulationMode, i, env.sdk = "absent")
          /\ connected' = Upd(connected, i, TRUE)
          /\ stConnected' = Upd(stConnected, i, TRUE)
          /\ running' = Upd(running, i, TRUE)
          /\ result' = "true"
       \/ /\ env.sdk = "fails"
          \* ChannelFactory...Init raises, or SportClient().Init() does after
          \* _sportClient was assigned
          /\ \E assigned \in BOOLEAN :
                 sportClient' = Upd(sportClient, i, sportClient[i] \/ assigned)
          /\ connected' = Upd(connected, i, FALSE)
          /\ stConnected' = Upd(stConnected, i, FALSE)
          /\ result' = "raise"
          /\ UNCHANGED <<running, simulationMode, thrVars>>
    /\ mainPc' = "connectReturn"
    /\ UNCHANGED <<kind, telVars, stateCb, commandQueue, lastMoveCmd, vidVars,
                   rtcVars, obstacleAvoidEnabled>>

\* WebSocketClient.connect up to its wait loop
WsConnect(i) ==
    /\ kind[i] = "relay"
    /\ Spawn(i, "top")
    /\ running' = Upd(running, i, TRUE)
    /\ mainPc' = "connectWait"
    /\ result' = "none"
    /\ UNCHANGED <<kind, connected, stConnected, telVars, stateCb,
                   commandQueue, dirVars, lastMoveCmd, vidVars, rtcVars,
                   obstacleAvoidEnabled>>

\* WebRTCClient.connect up to its wait loop, or its return without the library
RtcConnect(i) ==
    /\ kind[i] = "rtc"
    /\ IF env.webrtc
       THEN /\ Spawn(i, "start")
            /\ running' = Upd(running, i, TRUE)
            /\ mainPc' = "connectWait"
            /\ result' = "none"
       ELSE /\ result' = "false"
            /\ mainPc' = "connectReturn"
            /\ UNCHANGED <<running, thrVars>>
    /\ UNCHANGED <<kind, connected, stConnected, telVars, stateCb,
                   commandQueue, dirVars, lastMoveCmd, vidVars, rtcVars,
                   obstacleAvoidEnabled>>

\* transport.connect() is called
TrConnect(i) ==
    /\ \/ DirectConnect(i)
       \/ WsConnect(i)
       \/ RtcConnect(i)
    /\ mainInst' = i
    /\ checks' = 0
    /\ discReturned' = Upd(discReturned, i, FALSE)
    /\ wire' = <<>>
    /\ UNCHANGED <<serverUp, env, bridge>>

\* connect() with the test of the flag inverted
WsConnectWaitInverted(i) ==
    /\ kind[i] = "relay"
    /\ checks' = checks + 1
    /\ \/ /\ checks < WsConnectPolls
          /\ IF ~connected[i]
             THEN mainPc' = "connectReturn" /\ result' = "true"
             ELSE SleepOver(i) /\ UNCHANGED <<mainPc, result>>
       \/ /\ checks = WsConnectPolls
          /\ mainPc' = "connectReturn"
          /\ result' = IF connected[i] THEN "true" ELSE "false"

\* one round of WebSocketClient.connect's wait loop (a read of the flag, then
\* time.sleep(0.1)), and after the loop the read of return self.connected
WsConnectWait(i) ==
    /\ kind[i] = "relay"
    /\ checks' = checks + 1
    /\ \/ /\ checks < WsConnectPolls
          /\ IF connected[i]
             THEN mainPc' = "connectReturn" /\ result' = "true"
             ELSE SleepOver(i) /\ UNCHANGED <<mainPc, result>>
       \/ /\ checks = WsConnectPolls
          /\ mainPc' = "connectReturn"
          /\ result' = IF connected[i] THEN "true" ELSE "false"

\* one round of WebRTCClient.connect's wait loop, and after the loop its
\* return False
RtcConnectWait(i) ==
    /\ kind[i] = "rtc"
    /\ \/ /\ checks < RtcConnectPolls
          /\ checks' = checks + 1
          /\ IF connected[i]
             THEN mainPc' = "connectReturn" /\ result' = "true"
             ELSE SleepOver(i) /\ UNCHANGED <<mainPc, result>>
       \/ /\ checks = RtcConnectPolls
          /\ mainPc' = "connectReturn"
          /\ result' = "false"
          /\ UNCHANGED checks

\* the main thread inside connect()
TrConnectWait(i) ==
    /\ mainPc = "connectWait"
    /\ mainInst = i
    /\ \/ WsConnectWait(i)
       \/ RtcConnectWait(i)
    /\ wire' = <<>>
    /\ UNCHANGED <<trVars, mainInst, discReturned, serverUp, env, bridge>>

\* connect() hands its result to the caller
TrConnectReturn(i) ==
    /\ mainPc = "connectReturn"
    /\ mainInst = i
    /\ mainPc' = "idle"
    /\ checks' = 0
    /\ result' = "none"
    /\ wire' = <<>>
    /\ UNCHANGED <<trVars, mainInst, discReturned, serverUp, env, bridge>>

\* disconnect() up to its first join: _running = False, and for
\* WebRTCClient the hand-over of _asyncDisconnect to a running loop
TrDisconnect(i) ==
    /\ kind[i] \in Kinds
    /\ running' = Upd(running, i, FALSE)
    /\ discTask' = IF kind[i] = "rtc" /\ conn[i] # 0 /\ LoopRunning(i)
                   THEN Upd(discTask, i,
                            [st |-> "scheduled", loop |-> eventLoop[i]])
                   ELSE discTask
    /\ mainPc' = "join"
    /\ mainInst' = i
    /\ wire' = <<>>
    /\ UNCHANGED <<kind, connected, stConnected, telVars, stateCb, thrVars,
                   commandQueue, dirVars, lastMoveCmd, vidVars, tconn, conn,
                   eventLoop, obstacleAvoidEnabled>>
    /\ UNCHANGED <<checks, result, discReturned, serverUp, env, bridge>>

\* the last lines of every disconnect()
DisconnectReturn(i) ==
    /\ connected' = Upd(connected, i, FALSE)
    /\ stConnected' = Upd(stConnected, i, FALSE)
    /\ discReturned' = Upd(discReturned, i, TRUE)
    /\ mainPc' = "idle"

\* thread.join(timeout) is over: the thread has ended, or the timeout has
\* passed with the thread in a step that can last that long
JoinOver(i) ==
    \/ ~Alive(i, handle[i])
    \/ /\ handle[i] # 0
       /\ threads[i][handle[i]] \in SlowPc
       /\ discTask[i].st # "scheduled"

\* if thread and thread.is_alive(): thread.join(timeout)
TrJoin(i) ==
    /\ mainPc = "join"
    /\ mainInst = i
    /\ JoinOver(i)
    /\ IF kind[i] = "direct"
       THEN /\ mainPc' = "joinVideo"
            /\ UNCHANGED <<connected, stConnected, discReturned>>
       ELSE DisconnectReturn(i)
    /\ wire' = <<>>
    /\ UNCHANGED <<kind, running, telVars, stateCb, thrVars, commandQueue,
                   dirVars, lastMoveCmd, vidVars, rtcVars,
                   obstacleAvoidEnabled>>
    /\ UNCHANGED <<mainInst, checks, result, serverUp, env, bridge>>

\* Go2Client.disconnect's join of the video thread
TrJoinVideo(i) ==
    /\ mainPc = "joinVideo"
    /\ mainInst = i
    /\ videoThread[i] # "alive"
    /\ DisconnectReturn(i)
    /\ wire' = <<>>
    /\ UNCHANGED <<kind, running, telVars, stateCb, thrVars, commandQueue,
                   dirVars, lastMoveCmd, vidVars, rtcVars,
                   obstacleAvoidEnabled>>
    /\ UNCHANGED <<mainInst, checks, result, serverUp, env, bridge>>

\* setStateCallback
TrSetStateCallback(i) ==
    /\ kind[i] \in Kinds
    /\ stateCb' = Upd(stateCb, i, TRUE)
    /\ wire' = <<>>
    /\ UNCHANGED <<kind, flagVars, telVars, thrVars, commandQueue, dirVars,
                   lastMoveCmd, vidVars, rtcVars, obstacleAvoidEnabled>>
    /\ UNCHANGED <<mainVars, serverUp, env, bridge>>

\* Go2Client.setVideoCallback: the video thread starts only on a running client
TrSetVideoCallback(i) ==
    /\ kind[i] = "direct"
    /\ videoCb' = Upd(videoCb, i, TRUE)
    /\ videoThread' = IF running[i] /\ videoThread[i] = "none"
                      THEN Upd(videoThread, i, "alive")
                      ELSE videoThread
    /\ wire' = <<>>
    /\ UNCHANGED <<kind, flagVars, telVars, stateCb, thrVars, commandQueue,
                   dirVars, lastMoveCmd, frames, rtcVars,
                   obstacleAvoidEnabled>>
    /\ UNCHANGED <<mainVars, serverUp, env, bridge>>

(* ------------------------------------------------------ background threads *)
\* self._stateCallback(self.state.copy()), with the state as the step leaves it
Deliver(i) ==
    lastRobotState' =
        IF stateCb[i]
        THEN [from |-> i, connected |-> stConnected'[i],
              velocity |-> stVelocity'[i], mode |-> stMode'[i],
              feet |-> stFeet'[i], motors |-> stMotors'[i]]
        ELSE lastRobotState

SetPc(i, t, pc) == threads' = Upd(threads, i, Upd(threads[i], t, pc))

\* what a step of a background thread leaves alone
ThreadRest ==
    UNCHANGED <<kind, stateCb, handle, taken, mainVars, serverUp, env, appPc,
                appConnected, robotClient, connectionMode, speedMultiplier,
                appRaised, padVars, valVars>>
ThreadFrame ==
    /\ wire' = <<>>
    /\ ThreadRest

\* ---- Relay: WebSocketClient._connectionLoop
\* while self._running: the test
WsLoopTop(i, t) ==
    /\ kind[i] = "relay" /\ threads[i][t] = "top"
    /\ SetPc(i, t, IF running[i] THEN "try" ELSE "dead")
    /\ ThreadFrame
    /\ UNCHANGED <<flagVars, telVars, commandQueue, dirVars, lastMoveCmd,
                   vidVars, rtcVars, obstacleAvoidEnabled, bridge,
                   lastRobotState>>

\* asyncio.run(self._asyncConnectionLoop()): the connection attempt starts,
\* whatever _running has become since the test
WsTryStart(i, t) ==
    /\ kind[i] = "relay" /\ threads[i][t] = "try"
    /\ SetPc(i, t, "connecting")
    /\ ThreadFrame
    /\ UNCHANGED <<flagVars, telVars, commandQueue, dirVars, lastMoveCmd,
                   vidVars, rtcVars, obstacleAvoidEnabled, bridge,
                   lastRobotState>>

\* websockets.connect succeeded: the head of _asyncConnectionLoop
WsOpen(i, t) ==
    /\ kind[i] = "relay" /\ threads[i][t] = "connecting"
    /\ env.websockets /\ serverUp
    /\ SetPc(i, t, "session")
    /\ connected' = Upd(connected, i, TRUE)
    /\ stConnected' = Upd(stConnected, i, TRUE)
    /\ ThreadFrame
    /\ UNCHANGED <<running, telVars, commandQueue, dirVars, lastMoveCmd,
                   vidVars, rtcVars, obstacleAvoidEnabled, bridge,
                   lastRobotState>>

\* websockets.connect raised (refused, timed out): the except branch of
\* _connectionLoop
WsOpenFailed(i, t) ==
    /\ kind[i] = "relay" /\ threads[i][t] = "connecting"
    /\ env.websockets
    /\ SetPc(i, t, "afterTry")
    /\ connected' = Upd(connected, i, FALSE)
    /\ stConnected' = Upd(stConnected, i, FALSE)
    /\ ThreadFrame
    /\ UNCHANGED <<running, telVars, commandQueue, dirVars, lastMoveCmd,
                   vidVars, rtcVars, obstacleAvoidEnabled, bridge,
                   lastRobotState>>

\* import websockets failed: _asyncConnectionLoop returns at once
WsNoLibrary(i, t) ==
    /\ kind[i] = "relay" /\ threads[i][t] = "connecting"
    /\ ~env.websockets
    /\ SetPc(i, t, "afterTry")
    /\ ThreadFrame
    /\ UNCHANGED <<flagVars, telVars, commandQueue, dirVars, lastMoveCmd,
                   vidVars, rtcVars, obstacleAvoidEnabled, bridge,
                   lastRobotState>>

\* the mode table of WebSocketClient._updateState
WsModeMap(m) ==
    CASE m = "IDLE" -> "IDLE"
      [] m = "DOWN" -> "STAND_DOWN"
      [] m = "STAND" -> "STAND_UP"
      [] m = "WALK" -> "WALKING"
      [] m = "RUN" -> "RUNNING"
      [] OTHER -> "UNKNOWN"

\* An inbound message m is a record: form is "state", "unknown" (an object
\* of a type the client does not know), "nonobject" (JSON that is not an
\* object) or "badjson"; a "state" message has mode, velocity, feet (its
\* footContacts list) and bad, the first wrongly typed part of its payload:
\* "data" (the payload is not an object), "mode" (unhashable), "imu" (imuRoll
\* is not a number), "feet" (footContacts has no len()), "forces" (footForces
\* has no len()), or "none".
\* The exception that json.loads, data.get or _updateState raises on m
Raises(m) ==
    CASE m.form = "badjson" -> "JSONDecodeError"
      [] m.form = "nonobject" -> "AttributeError"
      [] m.form = "state" /\ m.bad = "data" -> "AttributeError"
      [] m.form = "state" /\ m.bad \in {"mode", "imu", "feet", "forces"} ->
             "TypeError"
      [] OTHER -> "none"
\* _handleMessage with except json.JSONDecodeError alone
HandlerCatchesJsonOnly(e) == e = "JSONDecodeError"
\* except json.JSONDecodeError / except Exception of _handleMessage
HandlerCatches(e) == e \in {"JSONDecodeError", "AttributeError", "TypeError"}
\* the thread after _handleMessage(message): an exception that left it would
\* end _receiveLoop, and the session with it
AfterHandle(i, t, m) ==
    IF Raises(m) = "none" \/ HandlerCatches(Raises(m))
    THEN threads[i][t]
    ELSE "afterTry"
\* how many of the parts of self.state _updateState has written when it
\* raises on m: connected, mode, velocity, the first foot, all feet
Written(m) ==
    CASE m.bad = "data" -> 0
      [] m.bad = "mode" -> 1
      [] m.bad = "imu" -> 2
      [] m.bad = "feet" -> 3
      [] m.bad = "forces" -> 4
      [] OTHER -> 5
\* self.state.feet replaced by one entry for each element of footContacts
FeetReplaced(feet, footContacts, upTo) ==
    [k \in 1..Min(Len(footContacts), upTo) |-> footContacts[k]]
\* for i in range(4): self.state.feet[i].contact =
\*     footContacts[i] if i < len(footContacts) else False, stopped after
\* upTo entries
FeetAfter(feet, footContacts, upTo) ==
    [k \in DOMAIN feet |->
        IF k <= upTo
        THEN (IF k <= Len(footContacts) THEN footContacts[k] ELSE FALSE)
        ELSE feet[k]]

\* _receiveLoop gets the "state" message m: _handleMessage, _updateState.
\* The event loop runs it only while _sendLoop is at an await.
WsReceiveState(i, t, m) ==
    /\ kind[i] = "relay" /\ threads[i][t] = "session"
    /\ serverUp
    /\ m.form = "state"
    /\ inbound' = Upd(inbound, i, m)
    /\ stConnected' = IF Written(m) >= 1 THEN Upd(stConnected, i, TRUE)
                      ELSE stConnected
    /\ stMode' = IF Written(m) >= 2 THEN Upd(stMode, i, WsModeMap(m.mode))
                 ELSE stMode
    /\ stVelocity' = IF Written(m) >= 3 THEN Upd(stVelocity, i, m.velocity)
                     ELSE stVelocity
    /\ stFeet' = CASE Written(m) = 5 ->
                         Upd(stFeet, i, FeetAfter(stFeet[i], m.feet, 4))
                    [] Written(m) = 4 ->
                         Upd(stFeet, i, FeetAfter(stFeet[i], m.feet, 1))
                    [] OTHER -> stFeet
    /\ SetPc(i, t, AfterHandle(i, t, m))
    /\ ThreadFrame
    /\ UNCHANGED <<running, connected, stMotors, commandQueue, dirVars,
                   lastMoveCmd, vidVars, rtcVars, obstacleAvoidEnabled, bridge>>
    /\ IF Written(m) = 5 THEN Deliver(i) ELSE UNCHANGED lastRobotState

\* _receiveLoop gets a message that is no "state" message: _handleMessage
\* logs it or ignores it
WsReceiveOther(i, t, m) ==
    /\ kind[i] = "relay" /\ threads[i][t] = "session"
    /\ serverUp
    /\ m.form # "state"
    /\ inbound' = Upd(inbound, i, m)
    /\ SetPc(i, t, AfterHandle(i, t, m))
    /\ ThreadFrame
    /\ UNCHANGED <<flagVars, stVelocity, stMode, stFeet, stMotors,
                   commandQueue, dirVars, lastMoveCmd, vidVars, rtcVars,
                   obstacleAvoidEnabled, bridge, lastRobotState>>

\* the dict WebSocketClient.move and standUp .. emergencyStop hand to
\* _sendCommand, as json.dumps writes it: its keys and their values
JsonOf(m) ==
    IF m.type = "move"
    THEN [type |-> "move", vx |-> m.v[1], vy |-> m.v[2], vyaw |-> m.v[3]]
    ELSE [type |-> m.type]

\* a relay message on the socket: json is what is written, op, v, src and
\* linkUp tell which call of the transport it comes from
WsFrame(i, m) ==
    [inst |-> i, op |-> m.type, v |-> m.v, src |-> m.type, topic |-> "ws",
     api |-> 0, linkUp |-> m.linkUp, json |-> JsonOf(m)]

\* _sendLoop is about to take a command: it has passed its while test, or it
\* is inside get() already
WsTakes(i, t) ==
    /\ kind[i] = "relay"
    /\ \/ threads[i][t] = "session" /\ running[i] /\ connected[i]
       \/ threads[i][t] = "get"

\* one round of _sendLoop with nothing to send: the blocking
\* self._commandQueue.get(timeout=0.1) is entered, and the event loop with it
WsGet(i, t) ==
    /\ WsTakes(i, t) /\ threads[i][t] = "session"
    /\ commandQueue[i] = <<>>
    /\ SetPc(i, t, "get")
    /\ ThreadFrame
    /\ UNCHANGED <<flagVars, telVars, commandQueue, dirVars, lastMoveCmd,
                   vidVars, rtcVars, obstacleAvoidEnabled, bridge,
                   lastRobotState>>

\* queue.Empty after 0.1 s: pass, then await asyncio.sleep(0.01)
WsGetTimeout(i, t) ==
    /\ kind[i] = "relay" /\ threads[i][t] = "get"
    /\ commandQueue[i] = <<>>
    /\ SetPc(i, t, "session")
    /\ ThreadFrame
    /\ UNCHANGED <<flagVars, telVars, commandQueue, dirVars, lastMoveCmd,
                   vidVars, rtcVars, obstacleAvoidEnabled, bridge,
                   lastRobotState>>

\* one round of _sendLoop with a command waiting: ws.send(json.dumps(cmd)),
\* then await asyncio.sleep(0.01)
WsSend(i, t) ==
    /\ WsTakes(i, t)
    /\ commandQueue[i] # <<>>
    /\ commandQueue' = Upd(commandQueue, i, Tail(commandQueue[i]))
    /\ wire' = <<WsFrame(i, Head(commandQueue[i]))>>
    /\ SetPc(i, t, "session")
    /\ ThreadRest
    /\ UNCHANGED <<flagVars, telVars, dirVars, lastMoveCmd, vidVars,
                   rtcVars, obstacleAvoidEnabled, bridge, lastRobotState>>

\* _sendLoop's cmd = self._commandQueue.get(timeout=0.1) alone: the command
\* has left the queue and is not written yet
WsTake(i, t) ==
    /\ WsTakes(i, t)
    /\ commandQueue[i] # <<>>
    /\ commandQueue' = Upd(commandQueue, i, Tail(commandQueue[i]))
    /\ taken' = Upd(taken, i, Append(taken[i], <<t, Head(commandQueue[i])>>))
    /\ SetPc(i, t, "send")
    /\ wire' = <<>>
    /\ UNCHANGED <<kind, stateCb, handle, mainVars, serverUp, env, appVars,
                   padVars, valVars>>
    /\ UNCHANGED <<flagVars, telVars, dirVars, lastMoveCmd, vidVars,
                   rtcVars, obstacleAvoidEnabled, bridge>>

\* the commands that wait in _sendLoops other than thread t's
TakenByOthers(i, t) == SelectSeq(taken[i], LAMBDA e : e[1] # t)
\* the command thread t's _sendLoop holds
TakenBy(i, t) == SelectSeq(taken[i], LAMBDA e : e[1] = t)[1][2]

\* await ws.send(json.dumps(cmd)) of the command taken, then
\* await asyncio.sleep(0.01)
WsTransmit(i, t) ==
    /\ kind[i] = "relay" /\ threads[i][t] = "send"
    /\ wire' = <<WsFrame(i, TakenBy(i, t))>>
    /\ taken' = Upd(taken, i, TakenByOthers(i, t))
    /\ SetPc(i, t, "session")
    /\ UNCHANGED <<kind, stateCb, handle, mainVars, serverUp, env, appVars,
                   padVars, valVars>>
    /\ UNCHANGED <<flagVars, telVars, commandQueue, dirVars, lastMoveCmd,
                   vidVars, rtcVars, obstacleAvoidEnabled, bridge>>

\* ws.send raised: the command is gone, _sendLoop breaks, the session ends
WsSendFailed(i, t) ==
    /\ WsTakes(i, t)
    /\ commandQueue[i] # <<>>
    /\ commandQueue' = Upd(commandQueue, i, Tail(commandQueue[i]))
    /\ SetPc(i, t, "afterTry")
    /\ ThreadFrame
    /\ UNCHANGED <<flagVars, telVars, dirVars, lastMoveCmd, vidVars, rtcVars,
                   obstacleAvoidEnabled, bridge, lastRobotState>>

\* the session ends without an exception reaching _connectionLoop: _sendLoop
\* left its while (not _running or not connected), or _receiveLoop ended (the
\* server closed, a receive error was caught)
WsSessionEnd(i, t) ==
    /\ kind[i] = "relay" /\ threads[i][t] = "session"
    /\ SetPc(i, t, "afterTry")
    /\ ThreadFrame
    /\ UNCHANGED <<flagVars, telVars, commandQueue, dirVars, lastMoveCmd,
                   vidVars, rtcVars, obstacleAvoidEnabled, bridge,
                   lastRobotState>>

\* if self._running: time.sleep(3)
WsAfterTry(i, t) ==
    /\ kind[i] = "relay" /\ threads[i][t] = "afterTry"
    /\ SetPc(i, t, IF running[i] THEN "backoff" ELSE "top")
    /\ ThreadFrame
    /\ UNCHANGED <<flagVars, telVars, commandQueue, dirVars, lastMoveCmd,
                   vidVars, rtcVars, obstacleAvoidEnabled, bridge,
                   lastRobotState>>

\* time.sleep(3) is over
WsBackoffOver(i, t) ==
    /\ kind[i] = "relay" /\ threads[i][t] = "backoff"
    /\ SetPc(i, t, "top")
    /\ ThreadFrame
    /\ UNCHANGED <<flagVars, telVars, commandQueue, dirVars, lastMoveCmd,
                   vidVars, rtcVars, obstacleAvoidEnabled, bridge,
                   lastRobotState>>

\* ---- Direct: Go2Client._stateLoop and _videoLoop
\* for i, motor in enumerate(self.state.motors): motor.temperature = ...
SimMotors(motors, sim) ==
    [k \in DOMAIN motors |-> [motors[k] EXCEPT !.temperature = sim.temperature]]
\* for i, foot in enumerate(self.state.feet):
\*     foot.contact = (int(t * 2) + i) % 2 == 0
SimFeet(feet, sim) ==
    [k \in DOMAIN feet |-> (sim.parity + (k - 1)) % 2 = 0]

\* one round of _stateLoop: _updateSimulatedState or _updateRealState (which
\* reads nothing yet), then the callback; sim is what the clock makes of the
\* generated values: the parity of int(t * 2), a motor temperature
DirectStateRound(i, t, sim) ==
    /\ kind[i] = "direct" /\ threads[i][t] = "run"
    /\ running[i]
    /\ stVelocity' = IF simulationMode[i]
                     THEN Upd(stVelocity, i, lastMoveCmd[i])
                     ELSE stVelocity
    /\ stMode' = IF simulationMode[i] THEN Upd(stMode, i, "STAND_UP")
                 ELSE stMode
    /\ stMotors' = IF simulationMode[i]
                   THEN Upd(stMotors, i, SimMotors(stMotors[i], sim))
                   ELSE stMotors
    /\ stFeet' = IF simulationMode[i]
                 THEN Upd(stFeet, i, SimFeet(stFeet[i], sim))
                 ELSE stFeet
    /\ UNCHANGED inbound
    /\ ThreadFrame
    /\ UNCHANGED <<flagVars, threads, commandQueue, dirVars, lastMoveCmd,
                   vidVars, rtcVars, obstacleAvoidEnabled, bridge>>
    /\ Deliver(i)

\* while self._running: is over
DirectStateExit(i, t) ==
    /\ kind[i] = "direct" /\ threads[i][t] = "run"
    /\ ~running[i]
    /\ SetPc(i, t, "dead")
    /\ ThreadFrame
    /\ UNCHANGED <<flagVars, telVars, commandQueue, dirVars, lastMoveCmd,
                   vidVars, rtcVars, obstacleAvoidEnabled, bridge,
                   lastRobotState>>

\* while self._running: of _videoLoop is over
DirectVideoExit(i) ==
    /\ kind[i] = "direct" /\ videoThread[i] = "alive"
    /\ ~running[i]
    /\ videoThread' = Upd(videoThread, i, "dead")
    /\ ThreadFrame
    /\ UNCHANGED <<flagVars, telVars, threads, commandQueue, dirVars,
                   lastMoveCmd, videoCb, frames, rtcVars,
                   obstacleAvoidEnabled, bridge, lastRobotState>>

\* one round of _videoLoop: _generateTestFrame() in simulation, else
\* _captureRealFrame(), which returns None; a frame that is not None goes to
\* the consumer; then time.sleep(0.033)
DirectVideoRound(i) ==
    /\ kind[i] = "direct" /\ videoThread[i] = "alive"
    /\ running[i]
    /\ frames' = IF simulationMode[i] /\ videoCb[i]
                 THEN Upd(frames, i, TRUE) ELSE frames
    /\ ThreadFrame
    /\ UNCHANGED <<flagVars, telVars, threads, commandQueue, dirVars,
                   lastMoveCmd, videoCb, videoThread, rtcVars,
                   obstacleAvoidEnabled, bridge, lastRobotState>>

\* ---- PeerConnection: WebRTCClient._runAsyncLoop, _asyncConnect
\* coroutines handed to the loop of thread t and not yet run are never run
\* once that loop is closed
Abandon(i, t) ==
    discTask' = IF discTask[i].st = "scheduled" /\ discTask[i].loop = t
                THEN Upd(discTask, i, [st |-> "abandoned", loop |-> t])
                ELSE discTask

\* the thread makes its loop and _asyncConnect makes the connection object
RtcStart(i, t) ==
    /\ kind[i] = "rtc" /\ threads[i][t] = "start"
    /\ SetPc(i, t, "connecting")
    /\ eventLoop' = Upd(eventLoop, i, t)
    /\ conn' = Upd(conn, i, t)
    /\ tconn' = Upd(tconn, i, Upd(tconn[i], t, "new"))
    /\ ThreadFrame
    /\ UNCHANGED <<flagVars, telVars, commandQueue, dirVars, lastMoveCmd,
                   vidVars, discTask, obstacleAvoidEnabled, bridge,
                   lastRobotState>>

\* await self._conn.connect() returned
RtcPeerUp(i, t) ==
    /\ kind[i] = "rtc" /\ threads[i][t] = "connecting"
    /\ tconn[i][t] = "new"
    /\ SetPc(i, t, "loop")
    /\ tconn' = Upd(tconn, i, Upd(tconn[i], t, "open"))
    /\ connected' = Upd(connected, i, TRUE)
    /\ stConnected' = Upd(stConnected, i, TRUE)
    /\ ThreadFrame
    /\ UNCHANGED <<running, telVars, commandQueue, dirVars, lastMoveCmd,
                   vidVars, conn, eventLoop, discTask, obstacleAvoidEnabled,
                   bridge, lastRobotState>>

\* await self._conn.connect() raised: connected = False, the loop is closed
RtcPeerFailed(i, t) ==
    /\ kind[i] = "rtc" /\ threads[i][t] = "connecting"
    /\ SetPc(i, t, "dead")
    /\ connected' = Upd(connected, i, FALSE)
    /\ Abandon(i, t)
    /\ ThreadFrame
    /\ UNCHANGED <<running, stConnected, telVars, commandQueue, dirVars,
                   lastMoveCmd, vidVars, tconn, conn, eventLoop,
                   obstacleAvoidEnabled, bridge, lastRobotState>>

\* one round of the state loop: _updateState
RtcUpdateState(i, t) ==
    /\ kind[i] = "rtc" /\ threads[i][t] = "loop"
    /\ running[i]
    /\ ThreadFrame
    /\ UNCHANGED <<flagVars, telVars, threads, commandQueue, dirVars,
                   lastMoveCmd, vidVars, rtcVars, obstacleAvoidEnabled, bridge>>
    /\ IF connected[i] /\ conn[i] # 0
       THEN Deliver(i)
       ELSE UNCHANGED lastRobotState

\* while self._running: is over, run_until_complete returns, the loop is closed
RtcLoopExit(i, t) ==
    /\ kind[i] = "rtc" /\ threads[i][t] = "loop"
    /\ ~running[i]
    /\ SetPc(i, t, "dead")
    /\ Abandon(i, t)
    /\ ThreadFrame
    /\ UNCHANGED <<flagVars, telVars, commandQueue, dirVars, lastMoveCmd,
                   vidVars, tconn, conn, eventLoop, obstacleAvoidEnabled, bridge, lastRobotState>>

\* the loop of thread t runs _asyncDisconnect to its end:
\* await self._conn.disconnect()
RtcAsyncDisconnect(i, t) ==
    /\ kind[i] = "rtc" /\ threads[i][t] \in {"connecting", "loop"}
    /\ discTask[i] = [st |-> "scheduled", loop |-> t]
    /\ discTask' = Upd(discTask, i, [st |-> "done", loop |-> t])
    /\ tconn' = IF conn[i] # 0
                THEN Upd(tconn, i, Upd(tconn[i], conn[i], "closed"))
                ELSE tconn
    /\ ThreadFrame
    /\ UNCHANGED <<flagVars, telVars, threads, commandQueue, dirVars,
                   lastMoveCmd, vidVars, conn, eventLoop,
                   obstacleAvoidEnabled, bridge, lastRobotState>>

(* ----------------------------------------------- relay server and network *)
\* the SDK call of one Go2BridgeServer command method
BridgeCall(a, v, src) ==
    IF env.bridgeSim THEN <<>> ELSE <<Cmd(0, a, v, src, "sdk", 0)>>

\* the SDK calls of Go2BridgeServer._handleMessage for one message
BridgeCalls(m) ==
    CASE m.op = "move" -> BridgeCall("move", m.v, "move")
      [] m.op = "emergencyStop" ->
             BridgeCall("stopMove", ZeroVel, m.op)
             \o BridgeCall("damp", ZeroVel, m.op)
      [] m.op \in Actions -> BridgeCall(m.op, ZeroVel, m.op)
      [] OTHER -> <<>>

\* what _move, _standUp, _standDown, _stopMove, _damp write into self.state
BridgeStateAfter(m) ==
    [bridge EXCEPT
        !.velocity = CASE m.op = "move" -> m.v
                       [] m.op \in {"stopMove", "emergencyStop"} -> ZeroVel
                       [] OTHER -> bridge.velocity,
        !.mode = CASE m.op = "standUp" -> "STAND"
                   [] m.op = "standDown" -> "DOWN"
                   [] m.op \in {"damp", "emergencyStop"} -> "IDLE"
                   [] OTHER -> bridge.mode]

\* data.get("vx", 0.0), data.get("vy", 0.0), data.get("vyaw", 0.0) with the
\* fields crossed
MoveOfJsonCrossed(d) ==
    <<IF "vy" \in DOMAIN d THEN d.vy ELSE 0,
      IF "vx" \in DOMAIN d THEN d.vx ELSE 0,
      IF "vyaw" \in DOMAIN d THEN d.vyaw ELSE 0>>

\* vx = data.get("vx", 0.0), vy = data.get("vy", 0.0),
\* vyaw = data.get("vyaw", 0.0) of a "move" message
MoveOfJson(d) ==
    <<IF "vx" \in DOMAIN d THEN d.vx ELSE 0,
      IF "vy" \in DOMAIN d THEN d.vy ELSE 0,
      IF "vyaw" \in DOMAIN d THEN d.vyaw ELSE 0>>

\* data = json.loads(message), msgType = data.get("type", ""), and the
\* arguments _handleMessage reads for that type
BridgeDecode(d) ==
    [op |-> IF "type" \in DOMAIN d THEN d.type ELSE "",
     v |-> IF "type" \in DOMAIN d /\ d.type = "move" THEN MoveOfJson(d)
           ELSE ZeroVel]

\* Go2BridgeServer._handleMessage on the message a client has just sent
BridgeHandle ==
    /\ serverUp
    /\ Len(wire) = 1 /\ wire[1].topic = "ws"
    /\ wire' = BridgeCalls(BridgeDecode(wire[1].json))
    /\ bridge' = BridgeStateAfter(BridgeDecode(wire[1].json))
    /\ UNCHANGED <<trVars, mainVars, serverUp, env, appVars, padVars, valVars>>

\* a "state" message
StateMsg(mode, velocity, feet, bad) ==
    [form |-> "state", mode |-> mode, velocity |-> velocity, feet |-> feet,
     bad |-> bad]
\* a message of a client as the relay server sees it: op is its type, or
\* "unknown", "nonobject" (JSON that is not an object), "badjson"
ClientMsg(op) == [op |-> op, v |-> ZeroVel]
\* the exception that json.loads or data.get raises on m in
\* Go2BridgeServer._handleMessage
BridgeRaises(m) ==
    CASE m.op = "badjson" -> "JSONDecodeError"
      [] m.op = "nonobject" -> "AttributeError"
      [] OTHER -> "none"
\* except json.JSONDecodeError / except Exception of
\* Go2BridgeServer._handleMessage
BridgeCatches(e) == e \in {"JSONDecodeError", "AttributeError", "TypeError"}

\* Go2BridgeServer._handleClient up to its receive loop: a client has connected
BridgeAccept ==
    /\ serverUp
    /\ bridge.handler = "none"
    /\ bridge' = [bridge EXCEPT !.handler = "open"]
    /\ wire' = <<>>
    /\ UNCHANGED <<trVars, mainVars, serverUp, env, appVars, padVars, valVars>>

\* one round of async for message in websocket: _handleMessage on m; an
\* exception that left it would end _handleClient
BridgeReceive(m) ==
    /\ serverUp
    /\ bridge.handler = "open"
    /\ wire' = IF BridgeRaises(m) = "none" THEN BridgeCalls(m) ELSE <<>>
    /\ bridge' = [(IF BridgeRaises(m) = "none" THEN BridgeStateAfter(m)
                   ELSE bridge)
                  EXCEPT !.inbound = m,
                         !.handler = IF BridgeRaises(m) = "none"
                                        \/ BridgeCatches(BridgeRaises(m))
                                     THEN "open" ELSE "closed"]
    /\ UNCHANGED <<trVars, mainVars, serverUp, env, appVars, padVars, valVars>>

\* the "state" message the relay server broadcasts at a moment
StateInputs ==
    {StateMsg("WALK", <<VelScale \div 2, 0, -(VelScale \div 10)>>,
              <<TRUE, FALSE, TRUE, FALSE>>, "none")}
\* what the clock makes of a round of the simulated state
SimInputs == {[parity |-> 0, temperature |-> 35]}

\* the steps of thread t of a Relay, a Direct, a PeerConnection transport
WsThreadStep(i, t) ==
    \/ WsLoopTop(i, t)
    \/ WsTryStart(i, t)
    \/ WsOpen(i, t)
    \/ WsOpenFailed(i, t)
    \/ WsNoLibrary(i, t)
    \/ \E m \in StateInputs : WsReceiveState(i, t, m)
    \/ WsGet(i, t)
    \/ WsGetTimeout(i, t)
    \/ WsSend(i, t)
    \/ WsSendFailed(i, t)
    \/ WsSessionEnd(i, t)
    \/ WsAfterTry(i, t)
    \/ WsBackoffOver(i, t)

DirectThreadStep(i, t) ==
    \/ \E sim \in SimInputs : DirectStateRound(i, t, sim)
    \/ DirectStateExit(i, t)

RtcThreadStep(i, t) ==
    \/ RtcStart(i, t)
    \/ RtcPeerUp(i, t)
    \/ RtcPeerFailed(i, t)
    \/ RtcUpdateState(i, t)
    \/ RtcLoopExit(i, t)
    \/ RtcAsyncDisconnect(i, t)

\* every step of every background thread
ThreadStep ==
    \E i \in Inst :
        \/ DirectVideoExit(i)
        \/ \E t \in Thr :
               \/ WsThreadStep(i, t)
               \/ DirectThreadStep(i, t)
               \/ RtcThreadStep(i, t)

(* ------------------------------------------- the transports, called directly *)
\* what is installed: the SDK here, the peer-connection library, the
\* websockets library, and whether the relay server runs in simulation
EnvOf(k) ==
    IF k = "direct"
    THEN {[sdk |-> s, webrtc |-> TRUE, websockets |-> TRUE, bridgeSim |-> FALSE] :
              s \in {"absent", "ok", "fails"}}
    ELSE IF k = "relay"
    THEN {[sdk |-> "ok", webrtc |-> TRUE, websockets |-> w, bridgeSim |-> FALSE] :
              w \in BOOLEAN}
    ELSE {[sdk |-> "ok", webrtc |-> w, websockets |-> TRUE, bridgeSim |-> FALSE] :
              w \in BOOLEAN}

InitNet(k) ==
    /\ wire = <<>>
    /\ serverUp \in IF k = "relay" THEN BOOLEAN ELSE {FALSE}
    /\ env \in EnvOf(k)
    /\ bridge = InitBridge

\* the velocity a caller passes to move(): (2.0, 1.0, -2.0), outside every limit
MoveInputs == {<<2 * VelScale, VelScale, -(2 * VelScale)>>}
\* the action methods a caller calls
CommandInputs == {"standUp", "emergencyStop"}

\* one transport of any variant, constructed and not yet connected
Init ==
    \E k \in Kinds :
        /\ InitTransports(k)
        /\ InitMain
        /\ InitNet(k)
        /\ InitApp
        /\ InitVal

Connect ==
    /\ mainPc = "idle"
    /\ TrConnect(1)
    /\ UNCHANGED <<appVars, padVars, valVars>>

ConnectWait ==
    /\ TrConnectWait(1)
    /\ UNCHANGED <<appVars, padVars, valVars>>

ConnectReturn ==
    /\ TrConnectReturn(1)
    /\ UNCHANGED <<appVars, padVars, valVars>>

Disconnect ==
    /\ mainPc = "idle"
    /\ TrDisconnect(1)
    /\ UNCHANGED <<appVars, padVars, valVars>>

Join ==
    /\ TrJoin(1)
    /\ UNCHANGED <<appVars, padVars, valVars>>

JoinVideo ==
    /\ TrJoinVideo(1)
    /\ UNCHANGED <<appVars, padVars, valVars>>

Move ==
    /\ mainPc = "idle"
    /\ \E v \in MoveInputs : TrMove(1, v)
    /\ UNCHANGED <<appVars, padVars, valVars>>

Command ==
    /\ mainPc = "idle"
    /\ \E a \in CommandInputs : TrCommand(1, a)
    /\ UNCHANGED <<appVars, padVars, valVars>>

SetObstacleAvoid ==
    /\ mainPc = "idle"
    /\ \E enable \in BOOLEAN : RtcSetObstacleAvoid(1, enable)
    /\ UNCHANGED <<mainVars, serverUp, env, bridge, appVars, padVars, valVars>>

SetVideoCallback ==
    /\ mainPc = "idle"
    /\ ~videoCb[1]
    /\ TrSetVideoCallback(1)
    /\ UNCHANGED <<appVars, padVars, valVars>>

Next ==
    \/ Connect
    \/ ConnectWait
    \/ ConnectReturn
    \/ Disconnect
    \/ Join
    \/ JoinVideo
    \/ Move
    \/ Command
    \/ SetObstacleAvoid
    \/ SetVideoCallback
    \/ ThreadStep

Spec == Init /\ [][Next]_vars

(* ------------------------------------------------------- the coordinator *)
\* _applyDeadzone without sign
ApplyDeadzoneUnsigned(r) ==
    IF Abs(r) < Deadzone THEN 0 ELSE Abs(r) - Deadzone

\* _applyDeadzone without its first branch
ApplyDeadzoneNoCut(r) ==
    (IF r > 0 THEN 1 ELSE -1) * (Abs(r) - Deadzone)

\* GamepadController._applyDeadzone: a raw axis value in 1/RawScale becomes a
\* shaped value in 1/StickScale
ApplyDeadzone(r) ==
    IF Abs(r) < Deadzone THEN 0
    ELSE (IF r > 0 THEN 1 ELSE -1) * (Abs(r) - Deadzone)

\* (axis + 1.0) / 2.0 of a controller with six axes, in 1/TrigScale
TriggerOf(r) == r + RawScale

\* what the joystick reports at a poll: both sticks and both triggers at
\* their ends
PadSamples ==
    {[lx |-> RawScale, ly |-> -RawScale, rx |-> -RawScale, lt |-> RawScale,
      rt |-> RawScale, name |-> "Xbox"]}

\* the hot-plug branches of poll without the second one
ConnectedAfterNoReplug(present, was) ==
    IF ~present /\ was THEN FALSE ELSE was

\* the hot-plug branches of poll: state.connected after them, with a device
\* present or not (numJoysticks > 0) and state.connected as it was
ConnectedAfter(present, was) ==
    IF ~present /\ was THEN FALSE
    ELSE IF present /\ ~was THEN TRUE
    ELSE was

\* state.controllerName: read from the device when it is detected again
NameAfter(present, p, j) ==
    IF present /\ ~p.connected THEN j.name ELSE p.controllerName

\* GamepadController.poll with no button changed: hot-plug detection, then
\* _updateState on a connected joystick
PollGamepad(present, j) ==
    /\ appPc = "idle" /\ mainPc = "idle"
    /\ pad' = IF present /\ ConnectedAfter(present, pad.connected)
              THEN [connected |-> TRUE,
                    leftStickX |-> ApplyDeadzone(j.lx),
                    leftStickY |-> ApplyDeadzone(j.ly),
                    rightStickX |-> ApplyDeadzone(j.rx),
                    leftTrigger |-> TriggerOf(j.lt),
                    rightTrigger |-> TriggerOf(j.rt),
                    buttons |-> prevButtons,
                    controllerName |-> NameAfter(present, pad, j)]
              ELSE [pad EXCEPT !.connected =
                                   ConnectedAfter(present, pad.connected)]
    /\ numJoysticks' = IF present THEN 1 ELSE 0
    /\ joystick' = IF present /\ ConnectedAfter(present, pad.connected)
                   THEN j ELSE joystick
    /\ buttonEvents' = <<>>
    /\ wire' = <<>>
    /\ UNCHANGED <<trVars, mainVars, serverUp, env, bridge, appVars,
                   prevButtons, lastEvent, modeCombo, valVars>>

\* 1.0 + trigger * (BOOST_MULTIPLIER - 1.0), in 1/BoostScale
Boost(t) ==
    BoostScale + (t * (BOOST_MULTIPLIER - 10) * BoostScale) \div (TrigScale * 10)
\* state.rightTrigger > 0.1
Pulled(t) == t * 10 > TrigScale

\* _controlLoop's velocity with the left trigger boosting forward
ControlVelNoReverse(p, m) ==
    LET vx0 == -(p.leftStickY * BASE_SPEED_VX * m)
        vy == -(p.leftStickX * BASE_SPEED_VY * m)
        vyaw == -(p.rightStickX * BASE_SPEED_VYAW * m)
        r == IF Pulled(p.rightTrigger) THEN Boost(p.rightTrigger)
             ELSE BoostScale
        l == IF Pulled(p.leftTrigger) THEN Boost(p.leftTrigger)
             ELSE BoostScale
    IN <<vx0 * r * l, vy * BoostScale * BoostScale,
         vyaw * BoostScale * BoostScale>>

\* the velocity _controlLoop computes from the gamepad state p and the speed
\* multiplier m
ControlVel(p, m) ==
    LET vx0 == -(p.leftStickY * BASE_SPEED_VX * m)
        vy == -(p.leftStickX * BASE_SPEED_VY * m)
        vyaw == -(p.rightStickX * BASE_SPEED_VYAW * m)
        r == IF Pulled(p.rightTrigger) THEN Boost(p.rightTrigger)
             ELSE BoostScale
        l == IF Pulled(p.leftTrigger) THEN -Boost(p.leftTrigger)
             ELSE BoostScale
    IN <<vx0 * r * l, vy * BoostScale * BoostScale,
         vyaw * BoostScale * BoostScale>>

\* a timer slot of the coordinator that returns at once: nothing changes
Dropped ==
    /\ wire' = <<>>
    /\ UNCHANGED <<trVars, mainVars, serverUp, env, bridge>>

\* _controlLoop that does not look at _connected
ControlLoopUnguarded ==
    /\ appPc = "idle" /\ mainPc = "idle"
    /\ IF robotClient # 0 /\ pad.connected
       THEN TrMove(robotClient, ControlVel(pad, speedMultiplier))
       ELSE Dropped
    /\ UNCHANGED <<appVars, padVars, valVars>>

\* Go2ControllerApp._controlLoop: it returns at once while the coordinator
\* is not connected or no gamepad is, and calls robotClient.move otherwise
ControlLoop ==
    /\ appPc = "idle" /\ mainPc = "idle"
    /\ IF appConnected /\ robotClient # 0 /\ pad.connected
       THEN TrMove(robotClient, ControlVel(pad, speedMultiplier))
       ELSE Dropped
    /\ UNCHANGED <<appVars, padVars, valVars>>

\* Go2ControllerApp._onStandUp .. _onRecovery and _onEmergencyStop, from a
\* button of the window or of the gamepad
OnAction(a) ==
    /\ appPc = "idle" /\ mainPc = "idle"
    /\ IF appConnected /\ robotClient # 0
       THEN TrCommand(robotClient, a)
       ELSE Dropped
    /\ UNCHANGED <<appVars, padVars, valVars>>

\* the action the operator asks for
ActionInputs == {"emergencyStop"}
\* the entries of StatusWidget.modeCombo
ModeIndex == 0..2
\* the next transport object the coordinator constructs
NextInst == CHOOSE i \in Inst : kind[i] = "none" /\ \A j \in Inst : kind[j] = "none" => i <= j

\* Go2ControllerApp._onConnect up to robotClient.connect(): the operator has
\* chosen entry modeIndex of the selector, the mode is read from it, a new
\* transport is constructed and given its callbacks.
\* The connect button is enabled only while the coordinator is disconnected.
OnConnect(modeIndex) ==
    /\ appPc = "idle" /\ mainPc = "idle"
    /\ ~appConnected
    /\ \E i \in Inst : kind[i] = "none"
    /\ connectionMode' = IF modeIndex = 0 THEN "websocket" ELSE "direct"
    /\ kind' = Upd(kind, NextInst, IF modeIndex = 0 THEN "relay" ELSE "direct")
    /\ robotClient' = NextInst
    /\ stateCb' = Upd(stateCb, NextInst, TRUE)
    /\ videoCb' = IF modeIndex = 0 THEN videoCb ELSE Upd(videoCb, NextInst, TRUE)
    /\ appPc' = "onConnect"
    /\ wire' = <<>>
    /\ UNCHANGED <<flagVars, telVars, thrVars, commandQueue, dirVars,
                   lastMoveCmd, videoThread, frames, rtcVars,
                   obstacleAvoidEnabled>>
    /\ modeCombo' = modeIndex
    /\ UNCHANGED <<mainVars, serverUp, env, bridge, appConnected,
                   speedMultiplier, lastRobotState, appRaised, pad,
                   prevButtons, numJoysticks, joystick, buttonEvents,
                   lastEvent, valVars>>

\* if self.robotClient.connect(): the call
OnConnectCall ==
    /\ appPc = "onConnect"
    /\ TrConnect(robotClient)
    /\ appPc' = "onConnectWait"
    /\ UNCHANGED <<appConnected, robotClient, connectionMode, speedMultiplier,
                   lastRobotState, appRaised, padVars, valVars>>

\* the main thread waits inside robotClient.connect()
OnConnectWait ==
    /\ appPc = "onConnectWait"
    /\ TrConnectWait(robotClient)
    /\ UNCHANGED <<appVars, padVars, valVars>>

\* connect() is back: _connected = True on True, a message box on False or on
\* an exception, which the handler catches
OnConnectEnd ==
    /\ appPc = "onConnectWait"
    /\ TrConnectReturn(robotClient)
    /\ appConnected' = (appConnected \/ result = "true")
    /\ appPc' = "idle"
    /\ UNCHANGED <<robotClient, connectionMode, speedMultiplier,
                   lastRobotState, appRaised, padVars, valVars>>

\* Go2ControllerApp._onDisconnect up to the join inside disconnect(). The
\* disconnect button is enabled only while the coordinator is connected.
OnDisconnect ==
    /\ appPc = "idle" /\ mainPc = "idle"
    /\ appConnected /\ robotClient # 0
    /\ TrDisconnect(robotClient)
    /\ appPc' = "onDisconnect"
    /\ UNCHANGED <<appConnected, robotClient, connectionMode, speedMultiplier,
                   lastRobotState, appRaised, padVars, valVars>>

\* the joins of disconnect(), and after it self._connected = False
OnDisconnectJoin ==
    /\ appPc = "onDisconnect"
    /\ \/ TrJoin(robotClient)
       \/ TrJoinVideo(robotClient)
    /\ IF mainPc' = "idle"
       THEN appConnected' = FALSE /\ appPc' = "idle"
       ELSE UNCHANGED <<appConnected, appPc>>
    /\ UNCHANGED <<robotClient, connectionMode, speedMultiplier,
                   lastRobotState, appRaised, padVars, valVars>>

\* the machines the application is started on: a relay listens or not, the
\* SDK is absent, present or failing, the websockets library is installed or
\* not
AppEnvs ==
    {<<TRUE, "ok", TRUE>>, <<FALSE, "absent", TRUE>>, <<FALSE, "fails", FALSE>>}

InitAppNet ==
    /\ wire = <<>>
    /\ \E e \in AppEnvs :
           /\ serverUp = e[1]
           /\ env = [sdk |-> e[2], webrtc |-> TRUE, websockets |-> e[3],
                     bridgeSim |-> FALSE]
    /\ bridge = InitBridge

\* the application after Go2ControllerApp() and initialize(): no transport yet
InitOfApp ==
    /\ InitTransports("none")
    /\ InitMain
    /\ InitAppNet
    /\ InitApp
    /\ InitVal

NextApp ==
    \/ \E modeIndex \in ModeIndex : OnConnect(modeIndex)
    \/ OnConnectCall
    \/ OnConnectWait
    \/ OnConnectEnd
    \/ OnDisconnect
    \/ OnDisconnectJoin
    \/ \E present \in BOOLEAN, j \in PadSamples : PollGamepad(present, j)
    \/ ControlLoop
    \/ \E i \in Inst, t \in Thr : WsThreadStep(i, t)
    \/ \E i \in Inst, t \in Thr : DirectThreadStep(i, t)

SpecApp == InitOfApp /\ [][NextApp]_vars

\* the application on a machine without the SDK, with a relay in reach or
\* not: a Relay connect succeeds or fails, a Direct connect succeeds in
\* simulation
InitDrop ==
    /\ InitTransports("none")
    /\ InitMain
    /\ wire = <<>>
    /\ serverUp \in BOOLEAN
    /\ env = [sdk |-> "absent", webrtc |-> TRUE, websockets |-> TRUE,
              bridgeSim |-> FALSE]
    /\ bridge = InitBridge
    /\ InitApp
    /\ InitVal

\* the application with the action buttons and a gamepad that stays plugged
\* in; the telemetry the transports receive is left out
NextDrop ==
    \/ \E modeIndex \in ModeIndex : OnConnect(modeIndex)
    \/ OnConnectCall
    \/ OnConnectWait
    \/ OnConnectEnd
    \/ OnDisconnect
    \/ OnDisconnectJoin
    \/ \E j \in PadSamples : PollGamepad(TRUE, j)
    \/ ControlLoop
    \/ \E a \in ActionInputs : OnAction(a)
    \/ \E i \in Inst, t \in Thr :
           \/ WsLoopTop(i, t)
           \/ WsTryStart(i, t)
           \/ WsOpen(i, t)
           \/ WsOpenFailed(i, t)
           \/ WsGet(i, t)
           \/ WsGetTimeout(i, t)
           \/ WsSend(i, t)
           \/ WsSendFailed(i, t)
           \/ WsSessionEnd(i, t)
           \/ WsAfterTry(i, t)
           \/ WsBackoffOver(i, t)
    \/ \E i \in Inst, t \in Thr : DirectStateExit(i, t)

SpecDrop == InitDrop /\ [][NextDrop]_vars

(* ------------------------------------------------ the application ends *)
\* Go2ControllerApp.cleanup: both timers and the gamepad are stopped; then,
\* if self._connected, self.go2Client.disconnect() - the coordinator has no
\* attribute go2Client (its transport is self.robotClient), so the
\* AttributeError leaves cleanup and the transport is not touched
Cleanup ==
    /\ appPc = "idle" /\ mainPc = "idle"
    /\ appPc' = "closed"
    /\ appRaised' = (appRaised \/ appConnected)
    /\ wire' = <<>>
    /\ UNCHANGED <<trVars, mainVars, serverUp, env, bridge, appConnected,
                   robotClient, connectionMode, speedMultiplier,
                   lastRobotState, padVars, valVars>>

\* the application until it ends, connected or not: the timers run, the
\* transports' threads run on after cleanup
NextCleanup ==
    \/ \E modeIndex \in ModeIndex : OnConnect(modeIndex)
    \/ OnConnectCall
    \/ OnConnectWait
    \/ OnConnectEnd
    \/ \E j \in PadSamples : PollGamepad(TRUE, j)
    \/ ControlLoop
    \/ Cleanup
    \/ \E i \in Inst, t \in Thr :
           \/ WsLoopTop(i, t)
           \/ WsTryStart(i, t)
           \/ WsOpen(i, t)
           \/ WsOpenFailed(i, t)
           \/ WsSend(i, t)
           \/ WsSessionEnd(i, t)
           \/ WsAfterTry(i, t)
           \/ WsBackoffOver(i, t)
           \/ \E sim \in SimInputs : DirectStateRound(i, t, sim)

SpecCleanup == InitDrop /\ [][NextCleanup]_vars

(* ------------------------------------------- telemetry, well formed or not *)
\* what a relay may send: "state" messages with four, fewer and more
\* footContacts, "state" messages with a wrongly typed field, and messages
\* that are no "state" messages
InboundInputs ==
    StateInputs
    \cup {StateMsg("RUN", <<VelScale \div 2, 0, -(VelScale \div 10)>>,
                   <<TRUE, TRUE>>, "none"),
          StateMsg("STAND", ZeroVel, <<FALSE, TRUE, TRUE, TRUE, TRUE>>, "none"),
          StateMsg("DOWN", <<VelScale, 0, 0>>, <<FALSE, FALSE, FALSE, FALSE>>,
                   "imu"),
          StateMsg("IDLE", <<VelScale, 0, 0>>, <<TRUE, TRUE, TRUE, TRUE>>,
                   "forces")}
    \cup {OtherMsg(f) : f \in {"badjson", "nonobject", "unknown"}}
\* what a client may send to the relay server
ClientInputs ==
    {ClientMsg(op) : op \in {"stopMove", "badjson", "nonobject", "unknown"}}
\* the simulated state at two moments
SimSamples ==
    {[parity |-> 0, temperature |-> 35], [parity |-> 1, temperature |-> 40]}

\* a Relay transport with a relay listening, or a Direct transport without
\* the SDK (simulation), constructed and not yet connected
InitTelemetry ==
    \E k \in {"relay", "direct"} :
        /\ InitTransports(k)
        /\ InitMain
        /\ wire = <<>>
        /\ serverUp = (k = "relay")
        /\ env = [sdk |-> "absent", webrtc |-> TRUE, websockets |-> TRUE,
                  bridgeSim |-> FALSE]
        /\ bridge = InitBridge
        /\ InitApp
        /\ InitVal

\* setStateCallback on the transport, before it is connected
SetStateCallback ==
    /\ mainPc = "idle"
    /\ ~stateCb[1] /\ FreeThr(1) = Thr
    /\ TrSetStateCallback(1)
    /\ UNCHANGED <<appVars, padVars, valVars>>

\* connect() on a transport that was never connected
ConnectFirst ==
    /\ FreeThr(1) = Thr
    /\ Connect

\* the steps of the Relay thread while the relay answers and nothing is sent
WsTelemetryStep(i, t) ==
    \/ WsLoopTop(i, t)
    \/ WsTryStart(i, t)
    \/ WsOpen(i, t)
    \/ \E m \in InboundInputs : WsReceiveState(i, t, m)
    \/ \E m \in InboundInputs : WsReceiveOther(i, t, m)
    \/ WsGet(i, t)
    \/ WsGetTimeout(i, t)
    \/ WsSessionEnd(i, t)
    \/ WsAfterTry(i, t)
    \/ WsBackoffOver(i, t)

NextTelemetry ==
    \/ SetStateCallback
    \/ ConnectFirst
    \/ ConnectWait
    \/ ConnectReturn
    \/ \E t \in Thr : WsTelemetryStep(1, t)
    \/ \E t \in Thr, sim \in SimSamples : DirectStateRound(1, t, sim)
    \/ BridgeAccept
    \/ \E m \in ClientInputs : BridgeReceive(m)

SpecTelemetry == InitTelemetry /\ [][NextTelemetry]_vars

(* ------------------------------------------------- buttons and the sticks *)
\* max(0.3, ..) and min(1.5, ..) of _onGamepadButton, in tenths
SpeedMin == 3
SpeedMax == 15

\* the LB and RB branches without max() and min()
OnGamepadButtonUnclamped(button, m) ==
    CASE button = "LB" -> m - 1
      [] button = "RB" -> m + 1
      [] OTHER -> m

\* Go2ControllerApp._onGamepadButton(button, True) on a coordinator that is
\* not connected: the speed multiplier it leaves
OnGamepadButton(button, m) ==
    CASE button = "LB" -> Max(SpeedMin, m - 1)
      [] button = "RB" -> Min(SpeedMax, m + 1)
      [] OTHER -> m

\* the buttons the joystick reports, in the order of XboxButton
PadButtons == <<"Y", "LB", "RB", "GUIDE">>

\* if pressed != prevPressed, with a test that is true of a held button too
ButtonChangedOrHeld(b, down, prev) == b \in down \/ b \in prev

\* if pressed != prevPressed: for button b, with the buttons of down pressed
\* now and those of prev recorded in _prevButtons
ButtonChanged(b, down, prev) == (b \in down) # (b \in prev)

\* the calls self._buttonCallback(button, pressed) of one _updateState, in
\* index order
ButtonEvents(down, prev) ==
    LET ch == SelectSeq(PadButtons, LAMBDA b : ButtonChanged(b, down, prev))
    IN [k \in 1..Len(ch) |-> [button |-> ch[k], pressed |-> ch[k] \in down]]

\* the loop over the buttons in _updateState: _buttonCallback for every
\* button that went down since the last poll, in index order
RECURSIVE AfterButtons(_, _, _)
AfterButtons(k, newly, m) ==
    IF k > Len(PadButtons) THEN m
    ELSE AfterButtons(k + 1, newly,
                      IF PadButtons[k] \in newly
                      THEN OnGamepadButton(PadButtons[k], m)
                      ELSE m)

\* GamepadController.poll on a joystick that is there: _updateState reads the
\* axes j and finds the buttons of down pressed; every change is recorded in
\* _prevButtons and reported, releases are ignored by the coordinator
PollButtons(j, down) ==
    /\ appPc = "idle" /\ mainPc = "idle"
    /\ ~appConnected
    /\ down # prevButtons
    /\ ConnectedAfter(TRUE, pad.connected)
    /\ pad' = [connected |-> TRUE,
               leftStickX |-> ApplyDeadzone(j.lx),
               leftStickY |-> ApplyDeadzone(j.ly),
               rightStickX |-> ApplyDeadzone(j.rx),
               leftTrigger |-> TriggerOf(j.lt),
               rightTrigger |-> TriggerOf(j.rt),
               buttons |-> down,
               controllerName |-> NameAfter(TRUE, pad, j)]
    /\ numJoysticks' = 1
    /\ joystick' = j
    /\ prevButtons' = down
    /\ buttonEvents' = ButtonEvents(down, prevButtons)
    /\ lastEvent' = [b \in DOMAIN lastEvent |->
                         LET ev == {k \in DOMAIN buttonEvents' :
                                        buttonEvents'[k].button = b}
                         IN IF ev = {} THEN lastEvent[b]
                            ELSE IF buttonEvents'[CHOOSE k \in ev :
                                                     \A n \in ev : n <= k].pressed
                                 THEN "pressed" ELSE "released"]
    /\ speedMultiplier' =
           AfterButtons(1, {buttonEvents'[k].button : k \in
                               {n \in DOMAIN buttonEvents' :
                                    buttonEvents'[n].pressed}},
                        speedMultiplier)
    /\ wire' = <<>>
    /\ UNCHANGED <<trVars, mainVars, serverUp, env, bridge, appPc,
                   appConnected, robotClient, connectionMode, lastRobotState,
                   appRaised, modeCombo, valVars>>

\* what the joystick reports: at rest, inside the deadzone with the triggers
\* pulled and released, at the deadzone, outside it, at the ends
PadInputs ==
    PadSamples
    \cup {NoJoystick,
          [lx |-> 2, ly |-> -2, rx |-> 1, lt |-> RawScale, rt |-> RawScale,
           name |-> "Xbox"],
          [lx |-> -2, ly |-> 2, rx |-> -2, lt |-> -RawScale, rt |-> 0,
           name |-> "Xbox"],
          [lx |-> Deadzone, ly |-> -Deadzone, rx |-> 2, lt |-> 0,
           rt |-> RawScale, name |-> "Xbox"],
          [lx |-> 4, ly |-> 1, rx |-> -RawScale, lt |-> RawScale,
           rt |-> -RawScale, name |-> "DualSense"]}

NextPad ==
    \/ \E present \in BOOLEAN, j \in PadInputs : PollGamepad(present, j)
    \/ \E j \in PadInputs, down \in SUBSET {"LB", "RB"} : PollButtons(j, down)
    \/ \E j \in PadSamples, down \in SUBSET {"Y", "GUIDE"} : PollButtons(j, down)

\* the application with a gamepad and no transport
SpecPad == InitOfApp /\ [][NextPad]_vars

(* -------------------------------------------------- the health of a state *)
\* isHealthy with "80 and above"
IsHealthyFrom80(s) ==
    /\ ~(s.batteryLevel < 10)
    /\ ~(s.errorCode # 0)
    /\ \A k \in DOMAIN s.motors :
           ~(s.motors[k].temperature >= 80) /\ ~s.motors[k].lost

\* RobotState.isHealthy
IsHealthy(s) ==
    /\ ~(s.batteryLevel < 10)
    /\ ~(s.errorCode # 0)
    /\ \A k \in DOMAIN s.motors :
           ~(s.motors[k].temperature > 80) /\ ~s.motors[k].lost

\* the RobotState values examined: every motor at one temperature, and one
\* motor, the first or the last, hotter or lost
HealthInputs ==
    {[batteryLevel |-> b, errorCode |-> e,
      motors |-> [k \in 1..12 |->
                      IF k = hot THEN [temperature |-> t, lost |-> l]
                      ELSE [temperature |-> base, lost |-> FALSE]]] :
         b \in {5, 9, 10, 50}, e \in {0, 1}, base \in {25, 40},
         hot \in {1, 12}, t \in {40, 80, 81}, l \in BOOLEAN}

InitState ==
    /\ InitTransports("none")
    /\ InitMain
    /\ InitAppNet
    /\ InitApp
    /\ robotState \in HealthInputs
    /\ healthy = "unread"

\* a reader evaluates robotState.isHealthy
ReadIsHealthy ==
    /\ healthy' = IF IsHealthy(robotState) THEN "True" ELSE "False"
    /\ UNCHANGED <<trVars, mainVars, netVars, appVars, padVars, robotState>>

NextState == ReadIsHealthy

SpecState == InitState /\ [][NextState]_vars

(* ------------------------------------- the control loop, tick after tick *)
\* what the joystick reports while the operator drives: the sticks inside
\* and outside the deadzone, each trigger released, at 0.1, just above it,
\* half way and pulled through
ControlPads ==
    {[lx |-> 4, ly |-> -RawScale, rx |-> 10, lt |-> l, rt |-> r,
      name |-> "Xbox"] :
         l \in {-RawScale, 4 - RawScale, RawScale},
         r \in {-RawScale, 4 - RawScale, 5 - RawScale, 0, RawScale}}
    \cup {[lx |-> -RawScale, ly |-> 6, rx |-> -2, lt |-> 0, rt |-> -RawScale,
           name |-> "Xbox"]}

\* the 20 ms timer fires after _sendLoop has emptied the queue
ControlTick ==
    /\ robotClient # 0 => commandQueue[robotClient] = <<>>
    /\ ControlLoop

\* the application on a machine whose relay answers
InitControl ==
    /\ InitTransports("none")
    /\ InitMain
    /\ wire = <<>>
    /\ serverUp = TRUE
    /\ env = [sdk |-> "absent", webrtc |-> TRUE, websockets |-> TRUE,
              bridgeSim |-> FALSE]
    /\ bridge = InitBridge
    /\ InitApp
    /\ InitVal

\* the operator sets the speed with LB and RB, connects over the relay and
\* then moves the sticks and the triggers
NextControl ==
    \/ \E j \in ControlPads : appConnected /\ PollGamepad(TRUE, j)
    \/ \E j \in PadSamples, down \in SUBSET {"LB", "RB"} : PollButtons(j, down)
    \/ OnConnect(0)
    \/ OnConnectCall
    \/ OnConnectWait
    \/ OnConnectEnd
    \/ ControlTick
    \/ \E i \in Inst, t \in Thr :
           \/ WsLoopTop(i, t)
           \/ WsTryStart(i, t)
           \/ WsOpen(i, t)
           \/ WsSend(i, t)

SpecControl == InitControl /\ [][NextControl]_vars

(* --------------------------- a Relay transport and the relay server's end *)
\* a Relay transport, constructed and not yet connected, and a relay server
\* that listens, with the SDK or in simulation
InitRelay ==
    /\ InitTransports("relay")
    /\ InitMain
    /\ wire = <<>>
    /\ serverUp = TRUE
    /\ env \in {[sdk |-> "ok", webrtc |-> TRUE, websockets |-> TRUE,
                 bridgeSim |-> b] : b \in BOOLEAN}
    /\ bridge = InitBridge
    /\ InitApp
    /\ InitVal

\* the velocities of two ticks: (2.0, 1.0, -2.0) and (0.5, -0.2, 0.1)
RelayMoves ==
    MoveInputs \cup {<<VelScale \div 2, -(VelScale \div 5), VelScale \div 10>>}

\* move() on the transport, tick after tick
RelayMove ==
    /\ mainPc = "idle"
    /\ \E v \in RelayMoves : TrMove(1, v)
    /\ UNCHANGED <<appVars, padVars, valVars>>

\* the steps of the Relay thread with _sendLoop's get and send apart
WsRelayStep(i, t) ==
    \/ WsLoopTop(i, t)
    \/ WsTryStart(i, t)
    \/ WsOpen(i, t)
    \/ WsGet(i, t)
    \/ WsGetTimeout(i, t)
    \/ WsTake(i, t)
    \/ WsTransmit(i, t)
    \/ WsSessionEnd(i, t)
    \/ WsAfterTry(i, t)
    \/ WsBackoffOver(i, t)

NextRelay ==
    \/ Connect
    \/ ConnectWait
    \/ ConnectReturn
    \/ Disconnect
    \/ Join
    \/ RelayMove
    \/ \E t \in Thr : WsRelayStep(1, t)
    \/ BridgeHandle

SpecRelay == InitRelay /\ [][NextRelay]_vars

(* ------------------------------------ the names of the modes on the relay *)
\* class RobotMode: its members
RobotModes ==
    {"IDLE", "STAND_DOWN", "STAND_UP", "WALKING", "RUNNING", "CLIMBING",
     "UNKNOWN"}
\* RobotState.modeStr: modeNames.get(self.mode, "UNKNOWN")
ModeStr(m) ==
    CASE m = "IDLE" -> "IDLE"
      [] m = "STAND_DOWN" -> "DOWN"
      [] m = "STAND_UP" -> "STAND"
      [] m = "WALKING" -> "WALK"
      [] m = "RUNNING" -> "RUN"
      [] m = "CLIMBING" -> "CLIMB"
      [] m = "UNKNOWN" -> "---"
      [] OTHER -> "UNKNOWN"

\* "state" messages whose mode is the modeStr of a RobotState, standing or
\* moving
ModeInputs ==
    {StateMsg(ModeStr(m), v, <<TRUE, FALSE, TRUE, FALSE>>, "none") :
         m \in RobotModes, v \in {ZeroVel, <<VelScale \div 2, 0, 0>>}}

\* the steps of the Relay thread while such messages arrive
WsModeStep(i, t) ==
    \/ WsLoopTop(i, t)
    \/ WsTryStart(i, t)
    \/ WsOpen(i, t)
    \/ \E m \in ModeInputs : WsReceiveState(i, t, m)
    \/ WsGet(i, t)
    \/ WsGetTimeout(i, t)
    \/ WsSessionEnd(i, t)
    \/ WsAfterTry(i, t)
    \/ WsBackoffOver(i, t)

NextMode ==
    \/ SetStateCallback
    \/ ConnectFirst
    \/ ConnectWait
    \/ ConnectReturn
    \/ \E t \in Thr : WsModeStep(1, t)

SpecMode == InitRelay /\ [][NextMode]_vars

(* ------------------------------------- a Direct transport and its video *)
\* a Direct transport, constructed and not yet connected, with the SDK
\* installed or not
InitVideo ==
    /\ InitTransports("direct")
    /\ InitMain
    /\ wire = <<>>
    /\ serverUp = FALSE
    /\ env \in {[sdk |-> s, webrtc |-> TRUE, websockets |-> TRUE,
                 bridgeSim |-> FALSE] : s \in {"absent", "ok"}}
    /\ bridge = InitBridge
    /\ InitApp
    /\ InitVal

\* the rounds of the video thread and of the state thread
VideoStep ==
    \/ DirectVideoRound(1)
    \/ DirectVideoExit(1)
    \/ \E t \in Thr, sim \in SimSamples : DirectStateRound(1, t, sim)
    \/ \E t \in Thr : DirectStateExit(1, t)

\* the main thread inside connect() or disconnect() gets on with it
VideoReturn ==
    \/ ConnectReturn
    \/ Join
    \/ JoinVideo

NextVideo ==
    \/ SetVideoCallback
    \/ Connect
    \/ Disconnect
    \/ Move
    \/ VideoReturn
    \/ VideoStep

\* a thread that is started runs: time.sleep(0.033) ends, the scheduler
\* gives each thread its turn, a call under way returns
SpecVideo ==
    /\ InitVideo /\ [][NextVideo]_vars
    /\ WF_vars(DirectVideoRound(1)) /\ WF_vars(VideoStep)
    /\ WF_vars(VideoReturn)

(* ------------------------------- the relay server: clients and broadcast *)
\* what stays as it is in a step of the relay server
ServerFrame ==
    /\ wire' = <<>>
    /\ UNCHANGED <<trVars, mainVars, serverUp, env, appVars, padVars, valVars>>

\* a message reaches client c
Got(c, type) == [bridge.got EXCEPT ![c] = Append(@, type)]

\* Go2BridgeServer._handleClient, its first lines: self.clients.add(websocket)
ServerAdd(c) ==
    /\ serverUp
    /\ bridge.session[c] = "none"
    /\ \A d \in Clients : d < c => bridge.session[d] # "none"
    /\ bridge' = [bridge EXCEPT !.clients = @ \cup {c},
                                !.session[c] = "added"]
    /\ ServerFrame

\* await websocket.send(json.dumps({"type": "connected", ...}))
ServerGreet(c) ==
    /\ bridge.session[c] = "added"
    /\ Len(bridge.got[c]) < MaxGot
    /\ bridge' = [bridge EXCEPT !.got = Got(c, "connected"),
                                !.session[c] = "open"]
    /\ ServerFrame

\* "getState" in the receive loop: the handler sends a "state" message itself
ServerGetState(c) ==
    /\ bridge.session[c] = "open"
    /\ Len(bridge.got[c]) < MaxGot
    /\ bridge' = [bridge EXCEPT !.got = Got(c, "state"),
                                !.inbound = [op |-> "getState", v |-> ZeroVel]]
    /\ ServerFrame

\* the connection closes (ConnectionClosed from send or from the receive
\* loop): finally, self.clients.discard(websocket)
ServerClose(c) ==
    /\ bridge.session[c] \in {"added", "open"}
    /\ bridge' = [bridge EXCEPT !.clients = @ \ {c},
                                !.session[c] = "closed"]
    /\ ServerFrame

\* _stateLoop calls asyncio.run(self._broadcastState()) in the state thread:
\* with a client in the set the message is built and for ws in self.clients
\* begins (an empty set returns at once)
BroadcastStart ==
    /\ serverUp
    /\ bridge.round.pc = "idle"
    /\ bridge.clients # {}
    /\ bridge' = [bridge EXCEPT
                     !.round = [NoRound EXCEPT
                                   !.pc = "iter",
                                   !.size = Cardinality(bridge.clients),
                                   !.snap = bridge.clients]]
    /\ ServerFrame

\* the set iterator of the for statement gives a next element: only while
\* the set has the size it had when the iteration began
IterGoesOn == Cardinality(bridge.clients) = bridge.round.size

\* one round of for ws in self.clients: await ws.send(message) on a client
\* the iterator has not given yet. The send runs in the state thread's own
\* event loop, not the one the connection lives in: it writes the message,
\* or raises, and the bare except puts the client into websockets_to_remove
BroadcastSend(c, ok) ==
    /\ bridge.round.pc = "iter"
    /\ IterGoesOn
    /\ c \in bridge.clients \ bridge.round.seen
    /\ ok => Len(bridge.got[c]) < MaxGot
    /\ bridge' = [bridge EXCEPT
                     !.got = IF ok THEN Got(c, "state") ELSE @,
                     !.round.seen = @ \cup {c},
                     !.round.sent = IF ok THEN @ \cup {c} ELSE @,
                     !.round.remove = IF ok THEN @ ELSE @ \cup {c}]
    /\ ServerFrame

\* the for statement ends: self.clients -= websockets_to_remove
BroadcastEnd ==
    /\ bridge.round.pc = "iter"
    /\ IterGoesOn
    /\ (bridge.round.snap \ bridge.round.seen) \cap bridge.clients = {}
    /\ bridge' = [bridge EXCEPT !.clients = @ \ bridge.round.remove,
                                !.round = NoRound]
    /\ ServerFrame

\* RuntimeError: Set changed size during iteration. It leaves
\* _broadcastState and asyncio.run; _stateLoop's except prints it and sleeps
BroadcastRaise ==
    /\ bridge.round.pc = "iter"
    /\ ~IterGoesOn
    /\ bridge' = [bridge EXCEPT !.round = NoRound]
    /\ ServerFrame

\* the relay server alone, listening, its state thread started
InitServer ==
    /\ InitTransports("none")
    /\ InitMain
    /\ wire = <<>>
    /\ serverUp = TRUE
    /\ env \in {[sdk |-> "ok", webrtc |-> TRUE, websockets |-> TRUE,
                 bridgeSim |-> b] : b \in BOOLEAN}
    /\ bridge = InitBridge
    /\ InitApp
    /\ InitVal

NextServer ==
    \/ \E c \in Clients : ServerAdd(c)
    \/ \E c \in Clients : ServerGreet(c)
    \/ \E c \in Clients : ServerGetState(c)
    \/ \E c \in Clients : ServerClose(c)
    \/ BroadcastStart
    \/ \E c \in Clients, ok \in BOOLEAN : BroadcastSend(c, ok)
    \/ BroadcastEnd
    \/ BroadcastRaise

SpecServer == InitServer /\ [][NextServer]_vars

(* ------------------------------------------------------------------ claims *)
\* the commands of the last step that go to the robot itself
ToRobot == SelectSeq(wire, LAMBDA e : e.topic # "ws")
Ops(q) == [k \in DOMAIN q |-> q[k].op]
LiveThreads(i) == {t \in Thr : Alive(i, t)}

\* C1: whenever a transport's emergencyStop dispatches commands to the robot,
\* they are exactly stop-move followed by damp, with nothing between them.
\* Go2Client.emergencyStop breaks it: stopMove() also calls move(0, 0, 0).
C1_EmergencyStopIsStopThenDamp ==
    (\E k \in DOMAIN ToRobot : ToRobot[k].src = "emergencyStop")
        => Ops(ToRobot) = <<"stopMove", "damp">>

\* C3: a relay message that goes out on the socket was passed to the transport
\* while a session was open; one passed while the link was down was dropped.
\* WebSocketClient._sendCommand queues it whatever the link's state.
C3_NoCommandFromBeforeTheLink ==
    \A k \in DOMAIN wire : wire[k].topic = "ws" => wire[k].linkUp

\* C4: once disconnect() has returned on a Direct or PeerConnection transport
\* and connect() was not called again, that transport dispatches nothing.
\* Go2Client.move and _sendSportCmd still call the SDK: they never test
\* connected, and disconnect() keeps _sportClient.
C4_SilentAfterDisconnect ==
    \A k \in DOMAIN wire :
        (wire[k].inst # 0 /\ kind[wire[k].inst] \in {"direct", "rtc"})
            => ~discReturned[wire[k].inst]

\* C6: once disconnect() has returned on a Relay or PeerConnection transport,
\* connected and state.connected are False until connect() is called again.
\* A connection attempt that outlives the join sets both afterwards.
C6_DisconnectedStaysFalse ==
    \A i \in Inst :
        (kind[i] \in {"relay", "rtc"} /\ discReturned[i])
            => (~connected[i] /\ ~stConnected[i])

\* C7: once disconnect() has returned on a PeerConnection transport and its
\* background thread has ended, no peer session it made is still open.
\* _asyncDisconnect is only scheduled: the loop can close before it runs.
C7_PeerSessionReleased ==
    \A i \in Inst :
        (kind[i] = "rtc" /\ discReturned[i] /\ LiveThreads(i) = {})
            => \A t \in Thr : tconn[i][t] # "open"

\* C8: a transport instance never has more than one connection/state loop.
\* connect() of Go2Client and of WebSocketClient starts a thread whatever
\* threads the instance already has.
C8_OneLoopPerInstance ==
    \A i \in Inst : Cardinality(LiveThreads(i)) <= 1

\* C9: connect() of Relay and of PeerConnection returns after a bounded wait.
\* Relay reads the connected flag at most 51 times (50 rounds of the wait
\* loop, then the read of return self.connected), PeerConnection at most 100
\* times; connect() returns True only on a flag it read as set, and returns
\* False otherwise.
C9_ConnectWaitIsBounded ==
    /\ [](mainInst # 0 =>
             /\ kind[mainInst] = "relay" => checks <= WsConnectPolls + 1
             /\ kind[mainInst] = "rtc" => checks <= RtcConnectPolls)
    /\ [][(mainPc = "connectWait" /\ mainPc' = "connectReturn") =>
             /\ result' \in {"true", "false"}
             /\ result' = "true" <=> connected[mainInst]
                                     /\ ~(/\ kind[mainInst] = "rtc"
                                          /\ checks = RtcConnectPolls)]_vars

\* Relay's connect() is about to return False after its 51st read of the flag
C9_Witness ==
    /\ mainInst # 0
    /\ kind[mainInst] = "relay"
    /\ mainPc = "connectReturn"
    /\ checks = WsConnectPolls + 1
    /\ result = "false"

\* C9 as the specification states it: Relay's connect() checks the connected
\* flag at most 50 times
C9_RelayReadsAtMost50 ==
    (mainInst # 0 /\ kind[mainInst] = "relay") => checks <= WsConnectPolls

WithinLimits(v) ==
    /\ Abs(v[1]) <= Lim(MAX_VX)
    /\ Abs(v[2]) <= Lim(MAX_VY)
    /\ Abs(v[3]) <= Lim(MAX_VYAW)

\* C2: every motion command a transport puts on the wire for the control loop
\* (an SDK Move call, a relay "move" message) has vx in [-1.5, 1.5], vy in
\* [-0.5, 0.5], vyaw in [-1.5, 1.5]. _controlLoop does not clamp and neither
\* does WebSocketClient.move: with both triggers pulled vx is 1.8 times the
\* stick.
C2_MotionWithinLimits ==
    \A k \in DOMAIN wire : wire[k].op = "move" => WithinLimits(wire[k].v)

\* C5: at most one transport the coordinator constructed has a live
\* background loop. _onConnect constructs the next transport without tearing
\* down the one it holds, whose connect() has timed out and which goes on
\* retrying.
C5_OneLiveTransport ==
    Cardinality({i \in Inst : LiveThreads(i) # {}}) <= 1

\* C10: after _onConnect over the Relay with no relay listening, the
\* coordinator is not connected, no exception has left the handler, and the
\* coordinator holds a RobotState. _lastRobotState is None from __init__ on
\* and only a telemetry callback replaces it.
C10_FailedConnectKeepsAState ==
    (/\ connectionMode = "websocket"
     /\ robotClient # 0
     /\ ~serverUp
     /\ appPc = "idle")
        => (~appConnected /\ ~appRaised /\ lastRobotState # NoState)

\* C11: whenever a Relay transport is at a connection attempt and none of its
\* sessions is open, connected and state.connected are False: the end of the
\* session before the attempt has cleared them. Only the except branch of
\* _connectionLoop clears the flags, and a session that ends (the server
\* closed, a receive error or a send error was caught inside its loop) raises
\* nothing into it.
C11_LinkLossClearsTheFlags ==
    \A i \in Inst :
        (/\ kind[i] = "relay"
         /\ ~LinkUp(i)
         /\ \E t \in Thr : threads[i][t] = "connecting")
            => (~connected[i] /\ ~stConnected[i])

\* C12: a Relay transport starts a connection attempt only while _running is
\* set: once disconnect() has been called (and connect() not again) no new
\* attempt is started. _connectionLoop tests _running and then enters
\* asyncio.run; a disconnect() between the two does not stop the attempt.
C12_NoAttemptAfterDisconnect ==
    [][\A i \in Inst, t \in Thr :
           (threads[i][t] = "try" /\ threads'[i][t] = "connecting")
               => running[i]]_vars

\* C13: while a session of a Relay transport is open and the relay sends
\* telemetry, the receive loop can take the next message at once, whatever
\* the command queue holds. With the queue empty _sendLoop waits in the
\* blocking self._commandQueue.get(timeout=0.1) and holds the event loop.
C13_ReceiveNeverHeldUp ==
    \A i \in Inst, t \in Thr :
        (kind[i] = "relay" /\ threads[i][t] \in {"session", "get"} /\ serverUp)
            => ENABLED (\E m \in StateInputs : WsReceiveState(i, t, m))

\* a message the claims call malformed: invalid JSON, JSON that is not an
\* object, an unknown type, a "state" payload with a wrongly typed field
Malformed(m) ==
    \/ m.form \in {"badjson", "nonobject", "unknown"}
    \/ m.form = "state" /\ m.bad # "none"
BridgeMalformed(m) == m.op \in {"badjson", "nonobject", "unknown"}

FromUpdate(m) == <<WsModeMap(m.mode), m.velocity, FeetAfter(NewFeet, m.feet, 4)>>
\* the snapshots that hold the fields of one single update, or of none
OneUpdate ==
    {<<"UNKNOWN", ZeroVel, NewFeet>>}
    \cup {FromUpdate(m) : m \in {n \in InboundInputs :
                                     n.form = "state" /\ n.bad = "none"}}

\* C15: the snapshot a Relay transport holds, and the snapshot delivered to
\* the subscriber, have the fields of one single telemetry update: an update
\* that failed part-way has changed nothing. _updateState writes self.state
\* in place field by field; a "state" message whose imuRoll is no number has
\* replaced the mode and left the velocity of the update before.
C15_SnapshotFromOneUpdate ==
    /\ \A i \in Inst :
           kind[i] = "relay" => <<stMode[i], stVelocity[i], stFeet[i]>> \in OneUpdate
    /\ (lastRobotState # NoState /\ kind[lastRobotState.from] = "relay")
           => <<lastRobotState.mode, lastRobotState.velocity,
                lastRobotState.feet>> \in OneUpdate

\* C17: the RobotState every transport holds, and the one delivered last, has
\* exactly 12 motor entries and exactly 4 foot entries, whatever the lengths
\* of the footContacts lists the relay has sent.
C17_TwelveMotorsFourFeet ==
    /\ \A i \in Inst : Len(stMotors[i]) = 12 /\ Len(stFeet[i]) = 4
    /\ lastRobotState # NoState
           => (Len(lastRobotState.motors) = 12 /\ Len(lastRobotState.feet) = 4)

\* updates with a footContacts list of two entries and of five entries have
\* been applied and delivered
C17_Witness ==
    \E i \in Inst :
        /\ kind[i] = "relay"
        /\ inbound[i].form = "state" /\ inbound[i].bad = "none"
        /\ Len(inbound[i].feet) = 2
        /\ stMode[i] = WsModeMap(inbound[i].mode)
        /\ stFeet[i] = <<TRUE, TRUE, FALSE, FALSE>>
        /\ lastRobotState.from = i
        /\ lastRobotState.feet = stFeet[i]

\* the telemetry store of transport i: the fields of self.state
StoreOf(i) == <<stConnected[i], stMode[i], stVelocity[i], stFeet[i], stMotors[i]>>
\* a step of the transport's own background thread t
ProducerStep(i, t) ==
    \/ WsThreadStep(i, t)
    \/ DirectThreadStep(i, t)
    \/ RtcThreadStep(i, t)

\* C16: while the ingestion loop of a transport is running, its telemetry
\* store is written by that loop only: no step of the caller's context
\* (move, standUp, damp, disconnect ..) changes the store while a background
\* thread of the transport is alive. WebRTCClient.move and standUp .. damp
\* assign self.state.velocity and self.state.mode in the caller's thread.
C16_OnlyTheProducerWrites ==
    [][\A i \in Inst :
           (StoreOf(i)' # StoreOf(i) /\ LiveThreads(i) # {})
               => \E t \in Thr : ProducerStep(i, t)]_vars

C19_SpeedMultiplierClamped ==
    SpeedMin <= speedMultiplier /\ speedMultiplier <= SpeedMax

\* LB was pressed at the lower end: the multiplier is at 0.3 with LB held
C19_Witness ==
    speedMultiplier = SpeedMin /\ "LB" \in prevButtons

\* a raw axis value inside the deadzone
Below(r) == Abs(r) < Deadzone

\* C20: for every raw stick axis value below the deadzone the shaped value is
\* exactly 0, and so is the component of the motion command the control loop
\* computes from it, for every speed multiplier and every trigger value.
C20_DeadzoneGivesZero ==
    \A m \in SpeedMin..SpeedMax \cup {speedMultiplier} :
        LET v == ControlVel(pad, m)
        IN /\ Below(joystick.ly) => (pad.leftStickY = 0 /\ v[1] = 0)
           /\ Below(joystick.lx) => (pad.leftStickX = 0 /\ v[2] = 0)
           /\ Below(joystick.rx) => (pad.rightStickX = 0 /\ v[3] = 0)

\* a poll has read all three axes inside the deadzone, off centre, with both
\* triggers pulled, at a multiplier other than 1.0
C20_Witness ==
    /\ pad.connected
    /\ joystick.lx = 2 /\ joystick.ly = -2 /\ joystick.rx = 1
    /\ Pulled(pad.leftTrigger) /\ Pulled(pad.rightTrigger)
    /\ speedMultiplier = SpeedMax
    /\ ControlVel(pad, speedMultiplier) = ZeroVel

\* sign(r) of a raw axis value
Sign(r) == IF r > 0 THEN 1 ELSE IF r < 0 THEN -1 ELSE 0
\* shaped value p (in 1/StickScale) is what the rescaling formula gives for
\* the raw value r (in 1/RawScale) with deadzone <= |r| <= 1
Rescaled(r, p) ==
    /\ p * (RawScale - Deadzone) = Sign(r) * (Abs(r) - Deadzone) * StickScale
    /\ Abs(r) = Deadzone => p = 0
    /\ Abs(r) = RawScale => Abs(p) = StickScale
    /\ p # 0 => Sign(p) = Sign(r)
    /\ -StickScale <= p /\ p <= StickScale

\* C21: for every raw axis value v with deadzone <= |v| <= 1 the shaped value
\* is sign(v) * (|v| - deadzone) / (1 - deadzone): 0 at the deadzone,
\* magnitude 1.0 at 1.0, the sign of v, within [-1, 1].
C21_RescaledOutsideDeadzone ==
    /\ ~Below(joystick.lx) => Rescaled(joystick.lx, pad.leftStickX)
    /\ ~Below(joystick.ly) => Rescaled(joystick.ly, pad.leftStickY)
    /\ ~Below(joystick.rx) => Rescaled(joystick.rx, pad.rightStickX)

\* a poll has read one axis just outside the deadzone and one at its
\* negative end
C21_Witness ==
    /\ pad.connected
    /\ joystick.lx = 4 /\ pad.leftStickX = 1
    /\ joystick.rx = -RawScale /\ pad.rightStickX = -StickScale

\* the events of button b among the calls of _buttonCallback of a poll
EventsOf(b, evs) == {k \in DOMAIN evs : evs[k].button = b}

\* C22: across any sequence of polls an event is emitted for a button exactly
\* when its pressed state differs from its state at the previous poll: a held
\* button gives no second event, and the events of one button alternate
\* between pressed and released, the first one being pressed.
C22_EventsOnChangesOnly ==
    [][\A b \in DOMAIN lastEvent :
           LET ev == EventsOf(b, buttonEvents')
           IN /\ (ev # {}) <=> ((b \in pad'.buttons) # (b \in pad.buttons))
              /\ Cardinality(ev) <= 1
              /\ \A k \in ev :
                     /\ buttonEvents'[k].pressed = (lastEvent[b] # "pressed")
                     /\ buttonEvents'[k].pressed = (b \in pad'.buttons)]_vars

\* RB was held over the poll that found LB released: the poll reported the
\* release of LB and nothing for RB
C22_Witness ==
    /\ buttonEvents = <<[button |-> "LB", pressed |-> FALSE]>>
    /\ "RB" \in pad.buttons
    /\ lastEvent["RB"] = "pressed" /\ lastEvent["LB"] = "released"

\* C23: after every poll of an initialised gamepad, connected says whether a
\* device is present: an unplug between two polls sets it to False, a
\* re-plug sets it to True and reads the name of the device again, and no
\* exception leaves poll().
C23_ConnectedFollowsTheDevice ==
    [][/\ pad'.connected = (numJoysticks' > 0)
       /\ (~pad.connected /\ pad'.connected)
              => pad'.controllerName = joystick'.name
       /\ ~appRaised']_vars

\* a device that had been detected and read was unplugged: the poll after
\* it found no device and cleared connected
C23_Witness ==
    /\ ~pad.connected /\ numJoysticks = 0
    /\ pad.controllerName = "DualSense"
    /\ joystick.name = "DualSense"

\* C24: on a PeerConnection transport every move() publishes at most one
\* request, on one topic: the obstacle-avoidance topic with api_id 1002 while
\* obstacle avoidance is enabled, the sport topic with api_id 1008 otherwise.
C24_MoveOnOneTopic ==
    \A k \in DOMAIN wire :
        (wire[k].src = "move" /\ wire[k].inst # 0 /\ kind[wire[k].inst] = "rtc")
            => /\ Len(wire) = 1
               /\ wire[k].op = "move"
               /\ IF obstacleAvoidEnabled[wire[k].inst]
                  THEN wire[k].topic = "obstacle" /\ wire[k].api = 1002
                  ELSE wire[k].topic = "sport" /\ wire[k].api = 1008

\* a move() with obstacle avoidance enabled has published its one request
C24_Witness ==
    /\ Len(wire) = 1
    /\ wire[1].src = "move" /\ kind[wire[1].inst] = "rtc"
    /\ obstacleAvoidEnabled[wire[1].inst]
    /\ wire[1].topic = "obstacle" /\ wire[1].api = OBSTACLE_MOVE

\* C25: without the vendor SDK, Go2Client.connect() succeeds in simulation
\* mode with the synthetic telemetry running, and after it no move or action
\* call invokes the SDK and none raises to its caller.
C25_SimulationWithoutSdk ==
    \A i \in Inst :
        (kind[i] = "direct" /\ env.sdk = "absent") =>
            /\ (mainPc = "connectReturn" /\ mainInst = i)
                   => /\ result = "true"
                      /\ simulationMode[i] /\ connected[i] /\ running[i]
                      /\ LiveThreads(i) # {}
            /\ \A k \in DOMAIN wire : wire[k].inst = i => wire[k].topic # "sdk"
            /\ ~sportClient[i]
            /\ ~appRaised

\* connected in simulation, a move() was made: its clamped velocity is kept
\* and nothing went to the SDK
C25_Witness ==
    /\ kind[1] = "direct" /\ env.sdk = "absent"
    /\ simulationMode[1] /\ connected[1]
    /\ mainPc = "idle"
    /\ lastMoveCmd[1] # ZeroVel
    /\ wire = <<>>

\* C26: in simulated Direct mode the velocity of every generated snapshot is
\* the clamped (vx, vy, vyaw) of the last move() call completed before the
\* snapshot was generated, or zeros if there was none: all three components
\* are of the same call.
C26_SnapshotShowsLastMove ==
    [][\A i \in Inst :
           (/\ kind[i] = "direct" /\ simulationMode[i]
            /\ \E t \in Thr, sim \in SimInputs : DirectStateRound(i, t, sim))
               => /\ stVelocity'[i] = lastMoveCmd[i]
                  /\ stVelocity'[i] = ClampVel(stVelocity'[i])
                  /\ stateCb[i] => /\ lastRobotState'.from = i
                                   /\ lastRobotState'.velocity = lastMoveCmd[i]]_vars

\* the coordinator holds a snapshot generated after a move() outside the
\* limits: it shows the clamped velocity of that call
C26_Witness ==
    /\ lastRobotState # NoState
    /\ kind[lastRobotState.from] = "direct"
    /\ simulationMode[lastRobotState.from]
    /\ lastRobotState.velocity = lastMoveCmd[lastRobotState.from]
    /\ Abs(lastRobotState.velocity[1]) = Lim(MAX_VX)
    /\ pad.connected
    /\ Abs(ControlVel(pad, speedMultiplier)[1]) > Lim(MAX_VX)

\* C27: telemetry updates are applied in arrival order: the states the
\* coordinator stores as its latest follow the order in which the active
\* transport received them, with no reordering or merging, and no older
\* state comes back after a newer one. Every state the coordinator stores
\* was therefore just received by the transport it holds as robotClient.
C27_LatestStateIsOfTheActiveTransport ==
    [][lastRobotState' # lastRobotState
           => /\ lastRobotState'.from = robotClient'
              /\ LiveThreads(robotClient') # {}]_vars

\* C28: an emergency stop dispatched while connected is a priority request:
\* on the Relay transport it does not wait behind motion commands that were
\* dispatched before it and are still unsent, so while one is queued the
\* next command taken off the queue is the emergency stop.
C28_EmergencyStopGoesFirst ==
    [][\A i \in Inst :
           (/\ kind[i] = "relay"
            /\ \E k \in DOMAIN commandQueue[i] :
                   /\ commandQueue[i][k].type = "emergencyStop"
                   /\ commandQueue[i][k].linkUp
            /\ commandQueue'[i] = Tail(commandQueue[i]))
               => Head(commandQueue[i]).type = "emergencyStop"]_vars

\* C29: when the active transport loses its link after a successful connect,
\* the coordinator sees a change of its connection state (from Ready to
\* Degraded) and keeps the last RobotState it received. So the coordinator
\* does not count itself connected while its Relay transport, without a
\* session, sleeps before the next attempt.
C29_LinkLossIsObserved ==
    (/\ robotClient # 0 /\ appPc = "idle"
     /\ kind[robotClient] = "relay"
     /\ ~LinkUp(robotClient)
     /\ \E t \in Thr : threads[robotClient][t] = "backoff")
        => ~appConnected

\* transport i is handed a command in this step: its queue grows, its last
\* move changes, or an SDK call or a published request of it is on the wire
Handed(i) ==
    \/ Len(commandQueue'[i]) > Len(commandQueue[i])
    \/ lastMoveCmd'[i] # lastMoveCmd[i]
    \/ \E k \in DOMAIN wire' : wire'[k].inst = i /\ wire'[k].topic # "ws"

\* C30: from the end of the coordinator's disconnect until a later connect
\* succeeds the polling and the control loop go on, but no motion or action
\* command is handed to any transport; after a failed connect none is handed
\* to the transport that failed. The coordinator counts itself connected
\* only from a successful connect to the end of a disconnect, and hands
\* commands only while it does, and only to the transport it holds.
C30_NoCommandsWhileDisconnected ==
    [][/\ \A i \in Inst : Handed(i) => (appConnected /\ i = robotClient)
       /\ (appConnected' /\ ~appConnected) => result = "true"
       /\ (appPc = "onDisconnect" /\ appPc' = "idle") => ~appConnected']_vars

\* after moves were handed to a Direct transport the coordinator's
\* disconnect has completed: the gamepad is still there with its sticks
\* off centre, the control loop is free to run, and drops what it computes
C30_Witness ==
    /\ ~appConnected /\ appPc = "idle" /\ mainPc = "idle"
    /\ robotClient # 0 /\ discReturned[robotClient]
    /\ lastMoveCmd[robotClient] # ZeroVel
    /\ pad.connected
    /\ ControlVel(pad, speedMultiplier) # ZeroVel
    /\ wire = <<>>

\* C31: on every new relay session the first message the client receives
\* from the relay server is the "connected" message; no "state" broadcast
\* reaches it before. The handler adds the websocket to self.clients before
\* it sends "connected", and the state thread broadcasts to that set.
C31_ConnectedComesFirst ==
    \A c \in Clients :
        bridge.got[c] # <<>> => bridge.got[c][1] = "connected"

\* C40: the relay server's broadcast never reads the client set while the
\* client handler is adding or removing a client in another thread: while a
\* round iterates the set is the one it began with, every round that ends
\* has sent the state message to every client that was in the set for the
\* whole round, and a client whose session is open stays in the set, so it
\* keeps receiving state messages. Nothing guards self.clients: a handler
\* that adds or discards during a round makes the iterator raise, and a send
\* that raises in the state thread's loop takes an open client out of the set.
C40_BroadcastReachesEveryClient ==
    [][/\ bridge'.round.pc = "iter" => bridge'.clients = bridge'.round.snap
       /\ (bridge.round.pc = "iter" /\ bridge'.round.pc = "idle")
              => (bridge.round.snap \cap bridge.clients) \subseteq bridge.round.sent
       /\ \A c \in Clients :
              bridge'.session[c] = "open" => c \in bridge'.clients]_vars

\* C32: for every motion command (vx, vy, vyaw) the "move" message the Relay
\* client encodes is decoded by the relay server into the same three values,
\* each in its own field, and those are the values the server applies: the
\* ones it passes to the SDK's Move and the ones it writes into its state.
C32_MoveRoundTrip ==
    [][(/\ Len(wire) = 1 /\ wire[1].topic = "ws" /\ wire[1].op = "move"
        /\ \/ wire' # <<>> /\ wire'[1].topic = "sdk"
           \/ bridge' # bridge)
       => /\ bridge'.velocity = wire[1].v
          /\ ~env.bridgeSim => wire' = <<Cmd(0, "move", wire[1].v, "move", "sdk", 0)>>
          /\ env.bridgeSim => wire' = <<>>]_vars

\* the relay server has applied a move whose three values all differ
C32_Witness ==
    /\ bridge.velocity \in RelayMoves
    /\ bridge.velocity[1] # bridge.velocity[2]
    /\ bridge.velocity[2] # bridge.velocity[3]
    /\ bridge.velocity[1] # bridge.velocity[3]
    /\ Len(wire) = 1 /\ wire[1].topic = "sdk" /\ wire[1].op = "move"

\* C35: the Relay transport transmits commands in the order they were
\* dispatched: a command is written to the socket only when no command that
\* left the queue before it is still waiting to be written. Two connection
\* threads of one transport each run a _sendLoop on the one queue, and the
\* one that took the later command may write first.
C35_TransmittedInDispatchOrder ==
    [][\A i \in Inst :
           (wire' # <<>> /\ wire'[1].topic = "ws" /\ wire'[1].inst = i
            /\ Len(taken'[i]) < Len(taken[i]))
           => taken'[i] = Tail(taken[i])]_vars

\* C33: a media-frame consumer registered on the Direct transport with
\* setVideoCallback eventually receives frames while the transport is
\* connected, whether it was registered before connect() or after it.
\* setVideoCallback starts the video thread only on a running client and
\* connect() never starts it; with the SDK, _captureRealFrame returns None.
C33_FramesReachTheConsumer ==
    (videoCb[1] /\ connected[1]) ~> (frames[1] \/ ~connected[1])

\* the velocity of a control tick as C34 words it, in 1/VelScale: the
\* sticks in 1/StickScale, 0.8, 0.3, 0.8 and the multiplier in tenths, and
\* 1 + trigger * 0.5 in 1/BoostScale, which is BoostScale + trigger with the
\* trigger in 1/TrigScale
ClaimedVel(p, m) ==
    LET vx0 == -(p.leftStickY * 8 * m)
        vx1 == IF p.rightTrigger * 10 > TrigScale
               THEN vx0 * (BoostScale + p.rightTrigger)
               ELSE vx0 * BoostScale
        vx2 == IF p.leftTrigger * 10 > TrigScale
               THEN -(vx1 * (BoostScale + p.leftTrigger))
               ELSE vx1 * BoostScale
    IN <<vx2, -(p.leftStickX * 3 * m) * BoostScale * BoostScale,
         -(p.rightStickX * 8 * m) * BoostScale * BoostScale>>

\* C34: on each control tick with speed multiplier m the control loop
\* computes vx = -leftStickY*0.8*m, vy = -leftStickX*0.3*m and
\* vyaw = -rightStickX*0.8*m; a right trigger above 0.1 multiplies vx by
\* 1 + rightTrigger*0.5, a left trigger above 0.1 then multiplies it by
\* -(1 + leftTrigger*0.5); vy and vyaw do not depend on the triggers. The
\* command the tick hands to the transport carries exactly these values.
C34_ControlTickVelocity ==
    [][\A i \in Inst :
           Len(commandQueue'[i]) > Len(commandQueue[i])
           => LET cmd == commandQueue'[i][Len(commandQueue'[i])]
              IN /\ cmd.type = "move"
                 /\ cmd.v = ClaimedVel(pad, speedMultiplier)]_vars

\* a tick with both triggers above 0.1, the sticks off centre and the speed
\* changed has handed its command to the transport
C34_Witness ==
    /\ robotClient # 0 /\ commandQueue[robotClient] # <<>>
    /\ pad.rightTrigger * 10 > TrigScale /\ pad.rightTrigger < TrigScale
    /\ pad.leftTrigger * 10 > TrigScale
    /\ pad.leftStickY # 0 /\ pad.leftStickX # 0 /\ pad.rightStickX # 0
    /\ speedMultiplier # 10
    /\ commandQueue[robotClient][1].v = ControlVel(pad, speedMultiplier)
    /\ commandQueue[robotClient][1].v[1] < 0

\* C36: the transport variant the coordinator constructs on connect is the
\* one the operator selected in the protocol selector (index 0
\* WebRTC/PeerConnection, index 1 WebSocket/Relay, index 2 SDK2/Direct), and
\* the variant in use does not change until the next connect. _onConnect
\* tests the index against 0 alone: entry 0 gives a Relay transport, entries
\* 1 and 2 a Direct one, and no entry gives a PeerConnection transport.
C36_SelectedVariantIsConstructed ==
    [][IF appPc = "idle" /\ appPc' = "onConnect"
       THEN kind'[robotClient'] =
                CASE modeCombo' = 0 -> "rtc"
                  [] modeCombo' = 1 -> "relay"
                  [] OTHER -> "direct"
       ELSE /\ robotClient' = robotClient
            /\ robotClient # 0 => kind'[robotClient] = kind[robotClient]]_vars

\* C37: on application cleanup while the coordinator is connected, cleanup()
\* stops both timers and the input source, calls disconnect() on the active
\* transport, and completes without raising: after it no poll and no control
\* tick runs, the transport has been told to stop, and no exception has left
\* the coordinator.
C37_CleanupDisconnects ==
    [][/\ (appPc = "idle" /\ appPc' = "closed" /\ appConnected)
              => (~appRaised' /\ ~running'[robotClient])
       /\ appPc = "closed"
              => (pad' = pad /\ commandQueue' = commandQueue
                  /\ lastMoveCmd' = lastMoveCmd)]_vars

\* C38: for every RobotMode m (IDLE, STAND_DOWN, STAND_UP, WALKING, RUNNING,
\* CLIMBING, UNKNOWN), decoding RobotState.modeStr(m) with the Relay's mode
\* table yields m: when the Relay transport has taken a "state" message whose
\* mode is modeStr(m), the mode it stores is m.
C38_ModeNamesRoundTrip ==
    \A i \in Inst, m \in RobotModes :
        (/\ inbound[i].form = "state"
         /\ inbound[i].mode = ModeStr(m))
            => stMode[i] = m

\* C39: the PeerConnection transport's obstacleAvoidEnabled is True only if
\* the most recent switch request that was actually published carried
\* enable=true, and a dropped request leaves the flag unchanged: a step changes
\* the flag only by publishing a switch request, to what that request
\* carries. setObstacleAvoid assigns the flag after
\* _sendObstacleAvoidCommand has returned, published or not.
C39_FlagFollowsPublishedSwitch ==
    [][\A i \in Inst :
           obstacleAvoidEnabled'[i] # obstacleAvoidEnabled[i]
               => \E k \in 1..Len(wire') :
                      /\ wire'[k].inst = i
                      /\ wire'[k].src = "setObstacleAvoid"
                      /\ wire'[k].op = (IF obstacleAvoidEnabled'[i]
                                        THEN "enable" ELSE "disable")]_vars

====
